---- MODULE Spec2Model ----
(***************************************************************************)
(* A model of the rollup client layer of arb-provider-ethers:              *)
(*   - ArbProvider (src/unnamed/part_000): getMessageResult, the two proof *)
(*     steps, and the getTransactionReceipt / getTransaction handlers of   *)
(*     perform;                                                            *)
(*   - ArbWallet (src/packages/arb-provider-ethers/src/lib/wallet.ts): the *)
(*     sequence counter and the two dispatch paths of sendTransaction.     *)
(* Every await of the source that reaches the validator, the aggregator or *)
(* the base chain is a point where the environment chooses the answer.     *)
(***************************************************************************)
EXTENDS Integers, Sequences, FiniteSets, TLC

VARIABLES
    \* ---- ArbProvider fields
    deterministicAssertions,  \* constructor flag
    vmIdCache,                \* optional chain id string
    arbRollupCache,           \* optional ArbRollup connection (its address)
    globalInboxCache,         \* optional GlobalInbox connection (its address)
    \* ---- environment of the provider
    clientVmId,               \* what the validator answers to getVmID
    \* ---- the provider request in progress (perform and getMessageResult)
    method,                   \* perform's method name, "" when idle
    txHash,                   \* params.transactionHash
    ppc,                      \* position in the handler
    ethReceipt,               \* getMessageResult: optional base-chain receipt
    arbTxHash,                \* getMessageResult: the rollup id queried
    rawResult,                \* getMessageResult: optional validator answer
    proofSteps,               \* proof steps run by this getMessageResult
    assertReceipt,            \* receipt read by processConfirmedDisputableAssertion
    gmr,                      \* outcome of getMessageResult
    pret,                     \* outcome of perform
    \* ---- ArbWallet fields
    seqCache,                 \* optional sequence counter
    pubkey,                   \* optional recovered public key
    walletInboxCache,         \* optional signer-linked GlobalInbox
    \* ---- environment of the wallet
    hasAggregator,            \* provider.aggregator is configured
    txCount,                  \* the account's transaction count on the rollup
    signerAddr,               \* signer.getAddress()
    l1Sent,                   \* sendL2Message transactions accepted by the base chain
    aggSent,                  \* aggregator.sendTransaction calls issued
    \* ---- the wallet flows (one per sendTransaction call chain)
    flows,                    \* the flows of this run
    wf,                       \* per flow: position and locals
    \* ---- history
    seqLog,                   \* values generateAndIncrementSeq returned, with their fate
    handles,                  \* handles sendTransaction returned
    countQueries,             \* getTransactionCount queries the wallet had answered
    \* ---- concurrent callers of the provider's and wallet's resolvers
    callers,                  \* per caller: the resolver it is in, position and locals
    netQueries,               \* queries issued to the validator and the rollup contract
    cacheWrites,              \* assignments made to each cache
    \* ---- call and getBlockNumber requests
    latestLocation,           \* ArbProvider field: optional rollup head last recorded
    lastCall,                 \* the last provider.call: its tag, whether passed as a Promise, the query issued, the outcome
    reported,                 \* what the validator answered to each head query
    resetEvents,              \* node heights passed to resetEventsBlock
    rpcCount                  \* call and getBlockNumber requests made

\* ------------------------------------------------------------------ bounds
MaxSiblings == 2      \* longest proof.logValHashes
MaxLogs == 2          \* most logs in one base-chain receipt
MaxInitCount == 1     \* largest on-chain transaction count at start
MaxSends == 2         \* most sendTransaction calls of one wallet flow
MaxReserves == 3      \* most generateAndIncrementSeq calls a flow makes by itself
MaxCalls == 2         \* most resolver calls of one concurrent caller
MaxRpc == 3           \* most call and getBlockNumber requests of one run

\* ------------------------------------------------- constants of the source
EB_EVENT_CDA == "RollupAsserted"
TransactionMessageDelivered == "TransactionMessageDelivered"
EthDepositMessageDelivered == "EthDepositMessageDelivered"
ERC20DepositMessageDelivered == "ERC20DepositMessageDelivered"
ERC721DepositMessageDelivered == "ERC721DepositMessageDelivered"
GetTransactionConfirmations == 1000

\* ----------------------------------------------------- optional JS values
\* undefined / null is the empty sequence, a present value a one-element one
None == <<>>
Some(x) == <<x>>
Get(o) == o[1]

\* ------------------------------------------------------------ value domains
Addrs == 1..2                               \* distinct 20-byte addresses
AddrStr == [base : Addrs, cs : BOOLEAN]     \* hex string; cs: mixed-case checksum form
toLowerCase(a) == [a EXCEPT !.cs = FALSE]
InboxAddr == [base |-> 2, cs |-> TRUE]
NodeHashes == {1, 2}
MsgBlockNums == {1}                         \* block of a delivered message
BlockNums == 1..2                           \* ethProvider.getBlockNumber()
MsgNums == {0, 7}
\* largest value incrementSeq is followed to
MaxCounter == MaxInitCount + MaxSends
\* above every sequence number two flows can be given
MaxSeq == MaxCounter + 2 * (MaxSends + MaxReserves)

\* 32-byte ids are naturals; base-chain hashes, deposit ids and transaction
\* ids are kept apart, as distinct keccak images are
L1Hash(k) == 100 + k
IdBytes == 32

\* BigNumber.toHexString(): the hex digits, most significant first, with a
\* leading zero digit where needed to make whole bytes
RECURSIVE hexDigits(_)
hexDigits(n) == IF n < 16 THEN <<n>> ELSE Append(hexDigits(n \div 16), n % 16)

toHexString(n) ==
    LET d == hexDigits(n)
    IN  IF Len(d) % 2 = 1 THEN <<0>> \o d ELSE d

\* ethers.utils.hexZeroPad(value, length): zero digits in front, up to
\* length bytes
zeroPad(digits, length) ==
    [i \in 1..(2 * length - Len(digits)) |-> 0] \o digits

\* the natural a hex string denotes
RECURSIVE hexValue(_)
hexValue(digits) ==
    IF digits = <<>> THEN 0
    ELSE hexValue(SubSeq(digits, 1, Len(digits) - 1)) * 16 + digits[Len(digits)]

\* line 193-196: the message number as a 32-byte id
hexZeroPad(messageNum) == hexValue(zeroPad(toHexString(messageNum), IdBytes))

\* Hashing.calculateTransactionHash: collision-free over its six arguments
calculateTransactionHash(vmId, to, from, seqNumber, value, data) ==
    1000 + ((((vmId.base * 3 + to) * 3 + from) * (MaxSeq + 1) + seqNumber)
              * 2 + value) * 2 + data

\* ethers.utils.solidityKeccak256(['bytes32','bytes32'], [a, b]) on hashes
\* written as sequences of naturals: a length-prefixed, collision-free pairing
solidityKeccak256(a, b) == <<Len(a)>> \o a \o b

\* ------------------------------------------------------- base-chain logs
RawLog(addr, topic, to, from, seqNumber, value, data, messageNum, f6, f7) ==
    [address |-> addr, topic |-> topic, to |-> to, from |-> from,
     seqNumber |-> seqNumber, value |-> value, data |-> data,
     messageNum |-> messageNum, logPostHash |-> f6, nodeHash |-> f7]

GlobalInboxEvents == {TransactionMessageDelivered, EthDepositMessageDelivered,
                      ERC20DepositMessageDelivered, ERC721DepositMessageDelivered}
ArbRollupEvents == {EB_EVENT_CDA, "RollupConfirmed"}

\* contract.interface.parseLog: null for a log that is no event of the interface
parseLog(iface, log) == IF log.topic \in iface THEN Some(log) ELSE None

TxDeliveredLog(to, from, seqNumber, value, data) ==
    RawLog(InboxAddr, TransactionMessageDelivered, to, from, seqNumber, value,
           data, 0, <<0>>, 0)
DepositLog(topic, messageNum) ==
    RawLog(InboxAddr, topic, 1, 1, 0, 0, 0, messageNum, <<0>>, 0)
ForeignLog == RawLog(InboxAddr, "Transfer", 1, 1, 0, 0, 0, 0, <<0>>, 0)
AssertedLog(addr, f6, f7) == RawLog(addr, EB_EVENT_CDA, 1, 1, 0, 0, 0, 0, f6, f7)
ConfirmedLog(addr) == RawLog(addr, "RollupConfirmed", 1, 1, 0, 0, 0, 0, <<0>>, 0)

SeqsUpTo(S, n) == UNION {[1..k -> S] : k \in 0..n}
Min(S) == CHOOSE x \in S : \A y \in S : x <= y

\* the receipts' log lists: up to n logs, at most one of them after the first
\* log of stops (the log at which the scanning code stops)
LogLists(alphabet, stops, n) ==
    {l \in SeqsUpTo(alphabet, n) :
        LET st == {i \in DOMAIN l : l[i] \in stops}
        IN  st = {} \/ Len(l) <= Min(st) + 1}

\* ------------------------------------------------ validator result values
\* The decoded execution value: Result.fromValue(val) reads the envelope
\* (incoming) out of it; id is what result.incoming.messageID() computes,
\* isL2Tx whether the message is an L2 transaction, blockNumber its block.
ValRec(id, isL2Tx, blockNumber) ==
    [id |-> id, isL2Tx |-> isL2Tx, blockNumber |-> blockNumber]
\* ArbValue.Value.hash(): collision-free over the value
valueHash(val) ==
    <<(val.id * 2 + (IF val.isL2Tx THEN 1 ELSE 0)) * 4 + val.blockNumber>>

HashAtoms == {<<0>>, <<1>>}
PreHashes == {<<0>>}

RECURSIVE reduce(_, _)
\* Array.prototype.reduce with the keccak step of processLogsProof
reduce(hashes, acc) ==
    IF hashes = <<>> THEN acc
    ELSE reduce(Tail(hashes), solidityKeccak256(acc, Head(hashes)))

\* processLogsProof with its last sibling dropped (an off-by-one fold)
processLogsProofMutant(value, proof) ==
    LET startHash == solidityKeccak256(proof.logPreHash, valueHash(value))
        n == Len(proof.logValHashes)
        checkHash == reduce(SubSeq(proof.logValHashes, 1, IF n > 0 THEN n - 1 ELSE 0),
                            startHash)
    IN  proof.logPostHash = checkHash

processLogsProof(value, proof) ==
    LET startHash == solidityKeccak256(proof.logPreHash, valueHash(value))
        checkHash == reduce(proof.logValHashes, startHash)
    IN  proof.logPostHash = checkHash

\* ------------------------------------------------------------ getArbTxId
\* the loop of getArbTxId over the parsed logs; vmId is what getVmID returned
\* getArbTxId going on to the last delivery event of the receipt
getArbTxIdLastMutant(logsOpt, vmId) ==
    IF logsOpt = None THEN None
    ELSE LET logs == Get(logsOpt)
             hits == {i \in DOMAIN logs : logs[i].topic \in GlobalInboxEvents}
         IN  IF hits = {} THEN None
             ELSE LET log == logs[CHOOSE i \in hits : \A j \in hits : j <= i]
                  IN  IF log.topic = TransactionMessageDelivered
                      THEN Some(calculateTransactionHash(vmId, log.to, log.from,
                                    log.seqNumber, log.value, log.data))
                      ELSE Some(hexZeroPad(log.messageNum))

\* lines 166-201: the rollup id of the first delivery event of a receipt
getArbTxId(logsOpt, vmId) ==
    IF logsOpt = None THEN None
    ELSE LET logs == Get(logsOpt)
             parsed == [i \in DOMAIN logs |-> parseLog(GlobalInboxEvents, logs[i])]
             hits == {i \in DOMAIN logs :
                        /\ parsed[i] # None
                        /\ Get(parsed[i]).topic \in
                             {TransactionMessageDelivered, EthDepositMessageDelivered,
                              ERC20DepositMessageDelivered, ERC721DepositMessageDelivered}}
         IN  IF hits = {} THEN None
             ELSE LET log == Get(parsed[Min(hits)])
                  IN  IF log.topic = TransactionMessageDelivered
                      THEN Some(calculateTransactionHash(vmId, log.to, log.from,
                                    log.seqNumber, log.value, log.data))
                      ELSE Some(hexZeroPad(log.messageNum))

\* whether getArbTxId reaches its getVmID call (a transaction-delivery event
\* is the first delivery event of the receipt)
NeedsVmId(logsOpt) ==
    /\ logsOpt # None
    /\ LET logs == Get(logsOpt)
           hits == {i \in DOMAIN logs : logs[i].topic \in GlobalInboxEvents}
       IN  hits # {} /\ logs[Min(hits)].topic = TransactionMessageDelivered

\* ------------------------------------- processConfirmedDisputableAssertion
\* events.findIndex(event => event.name === EB_EVENT_CDA): reading .name of a
\* null event throws; index 0 stands for -1
findIndexCDA(logs) ==
    LET events == [i \in DOMAIN logs |-> parseLog(ArbRollupEvents, logs[i])]
        stops == {i \in DOMAIN logs :
                    events[i] = None \/ Get(events[i]).topic = EB_EVENT_CDA}
    IN  IF stops = {} THEN [throws |-> FALSE, index |-> 0]
        ELSE IF events[Min(stops)] = None THEN [throws |-> TRUE, index |-> 0]
        ELSE [throws |-> FALSE, index |-> Min(stops)]

\* the three checks with the node hash check left out
assertionChecksMutant(rawLog, vmId, nodeInfo, proof) ==
    /\ toLowerCase(rawLog.address) = toLowerCase(vmId)
    /\ rawLog.logPostHash = proof.logPostHash

\* the three checks on the RollupAsserted event: TRUE when none throws
assertionChecks(rawLog, vmId, nodeInfo, proof) ==
    /\ toLowerCase(rawLog.address) = toLowerCase(vmId)
    /\ rawLog.logPostHash = proof.logPostHash
    /\ rawLog.nodeHash = nodeInfo.nodeHash

\* ------------------------------------------------- environment's answers
IsL1Hash(h) == h > 100 /\ h < 1000

InboxLogAlphabet ==
    {ForeignLog}
    \cup {TxDeliveredLog(to, 1, 0, 0, 0) : to \in Addrs}
    \cup {DepositLog(t, m) : t \in {EthDepositMessageDelivered,
                                      ERC20DepositMessageDelivered,
                                      ERC721DepositMessageDelivered},
                             m \in MsgNums}

Receipt(logsOpt, confirmations) == [logs |-> logsOpt, confirmations |-> confirmations]

\* ethProvider.getTransactionReceipt(h): null while no transaction with that
\* hash is mined, else a receipt with any logs; a keccak-derived rollup id
\* is taken to be no base-chain hash
ReceiptAnswers(h) ==
    IF IsL1Hash(h)
    THEN {None, Some(Receipt(None, 1))}
         \cup {Some(Receipt(Some(l), 1)) :
                  l \in LogLists(InboxLogAlphabet, InboxLogAlphabet \ {ForeignLog}, MaxLogs)}
    ELSE {None}

NodeInfo(nodeHash, nodeHeight, l1TxHash, l1Confirmations) ==
    [nodeHash |-> nodeHash, nodeHeight |-> nodeHeight, l1TxHash |-> l1TxHash,
     l1Confirmations |-> l1Confirmations]

Proof(pre, sibs, post) ==
    [logPreHash |-> pre, logValHashes |-> sibs, logPostHash |-> post]

\* sibling lists that differ from sibs in exactly one position
OneReplaced(sibs) ==
    UNION {{[sibs EXCEPT ![i] = h] : h \in HashAtoms \ {sibs[i]}} : i \in DOMAIN sibs}

\* the post hashes a validator may claim: the right one, the fold of a list
\* with one sibling replaced, the fold of the list without its last sibling,
\* and a hash that is no fold at all
PostHashes(val, pre, sibs) ==
    LET start == solidityKeccak256(pre, valueHash(val))
    IN  {reduce(sibs, start), <<1>>}
        \cup {reduce(s, start) : s \in OneReplaced(sibs)}
        \cup (IF sibs = <<>> THEN {}
              ELSE {reduce(SubSeq(sibs, 1, Len(sibs) - 1), start)})

Raw(val, nodeInfoOpt, proofOpt) ==
    [val |-> val, nodeInfo |-> nodeInfoOpt, proof |-> proofOpt]

ProofsFor(val) ==
    UNION {{Proof(pre, sibs, post) : post \in PostHashes(val, pre, sibs)} :
              pre \in PreHashes, sibs \in SeqsUpTo(HashAtoms, MaxSiblings)}

\* client.getMessageResult(q): the untrusted validator may answer with any
\* value, node info and proof; no envelope has a base-chain hash as its id
RawResults(q) ==
    UNION {{Raw(val, ni, pf) :
               ni \in {None} \cup {Some(NodeInfo(nh, 1, l1, lc)) :
                                       nh \in {1}, l1 \in {None, Some(L1Hash(9))},
                                       lc \in {None, Some(3)}},
               pf \in {None} \cup {Some(x) : x \in ProofsFor(val)}} :
           val \in {ValRec(id, l2, b) :
                       id \in (IF IsL1Hash(q) THEN {} ELSE {q}) \cup {q + 1},
                       l2 \in BOOLEAN, b \in MsgBlockNums}}

\* ------------------------------------------------------------- state groups
providerFields == <<deterministicAssertions, vmIdCache, arbRollupCache,
                    globalInboxCache, clientVmId>>
callVars == <<method, txHash, ppc, ethReceipt, arbTxHash, rawResult,
              proofSteps, assertReceipt, gmr, pret>>
walletFields == <<seqCache, pubkey, walletInboxCache>>
walletEnv == <<hasAggregator, txCount, signerAddr, l1Sent, aggSent>>
walletVars == <<walletFields, walletEnv, flows, wf, seqLog, handles, countQueries>>
resolverVars == <<callers, netQueries, cacheWrites>>
rpcVars == <<latestLocation, lastCall, reported, resetEvents, rpcCount>>
vars == <<providerFields, callVars, walletVars, resolverVars, rpcVars>>

GmrNone == [kind |-> "none", txHash |-> 0, nodeInfo |-> None]
GmrNull == [kind |-> "null", txHash |-> 0, nodeInfo |-> None]
GmrError == [kind |-> "error", txHash |-> 0, nodeInfo |-> None]
GmrResult(h, nodeInfoOpt) == [kind |-> "result", txHash |-> h, nodeInfo |-> nodeInfoOpt]

PretNone == [kind |-> "none", hash |-> 0, confirmations |-> None, blockHash |-> None]
PretNull == [kind |-> "null", hash |-> 0, confirmations |-> None, blockHash |-> None]
PretError == [kind |-> "error", hash |-> 0, confirmations |-> None, blockHash |-> None]

\* ------------------------------------------------------- getMessageResult
\* line 226: ethProvider.getTransactionReceipt(txHash)
GmrGetReceipt ==
    /\ ppc = "receipt"
    /\ \/ /\ gmr' = GmrError
          /\ ppc' = "perform"
          /\ UNCHANGED <<ethReceipt, arbTxHash>>
       \/ \E r \in ReceiptAnswers(txHash) :
             /\ ethReceipt' = r
             /\ IF r = None
                THEN arbTxHash' = txHash /\ ppc' = "query"
                ELSE arbTxHash' = arbTxHash /\ ppc' = "arbTxId"
             /\ gmr' = gmr
    /\ UNCHANGED <<providerFields, method, txHash, rawResult, proofSteps,
                   assertReceipt, pret, walletVars, resolverVars, rpcVars>>

\* getArbTxId (166-201) gives way at each query it has to await: the
\* client.getVmID() of arbRollupConn (118-126), the arbRollup.globalInbox()
\* of globalInboxConn (132-144) and the client.getVmID() of getVmID
\* (154-164). While ppc = "arbTxId" the query awaited is the first one whose
\* cache is still empty.

\* lines 171-200 and 229-234, once the inbox connection is there and the
\* chain id, where the first delivery event needs it, is vmId
ArbTxIdReturns(vmId) ==
    LET id == getArbTxId(Get(ethReceipt).logs, vmId)
    IN  IF id = None
        THEN gmr' = GmrNull /\ ppc' = "perform" /\ arbTxHash' = arbTxHash
        ELSE gmr' = gmr /\ ppc' = "query" /\ arbTxHash' = Get(id)

\* the query awaited was rejected: getMessageResult throws
ArbTxIdThrows == gmr' = GmrError /\ ppc' = "perform" /\ arbTxHash' = arbTxHash

\* lines 119-122 under getArbTxId: client.getVmID() of arbRollupConn is
\* answered and arbRollupCache assigned, or it is rejected
GmrArbRollupConn ==
    /\ ppc = "arbTxId"
    /\ globalInboxCache = None
    /\ arbRollupCache = None
    /\ \/ ArbTxIdThrows /\ UNCHANGED arbRollupCache
       \/ /\ arbRollupCache' = Some(clientVmId)
          /\ UNCHANGED <<gmr, ppc, arbTxHash>>
    /\ UNCHANGED <<deterministicAssertions, vmIdCache, globalInboxCache, clientVmId,
                   method, txHash, ethReceipt, rawResult, proofSteps, assertReceipt,
                   pret, walletVars, resolverVars, rpcVars>>

\* lines 135-141 under getArbTxId: arbRollup.globalInbox() is answered and
\* globalInboxCache assigned, or it is rejected; getArbTxId then runs on to
\* its getVmID() call, or to its return when it needs no chain id or has it
GmrGlobalInboxConn ==
    /\ ppc = "arbTxId"
    /\ globalInboxCache = None
    /\ arbRollupCache # None
    /\ \/ ArbTxIdThrows /\ UNCHANGED globalInboxCache
       \/ /\ globalInboxCache' = Some(InboxAddr)
          /\ IF NeedsVmId(Get(ethReceipt).logs) /\ vmIdCache = None
             THEN UNCHANGED <<gmr, ppc, arbTxHash>>
             ELSE ArbTxIdReturns(IF vmIdCache = None THEN clientVmId
                                 ELSE Get(vmIdCache))
    /\ UNCHANGED <<deterministicAssertions, vmIdCache, arbRollupCache, clientVmId,
                   method, txHash, ethReceipt, rawResult, proofSteps, assertReceipt,
                   pret, walletVars, resolverVars, rpcVars>>

\* lines 171-200 and 229-234 with getVmID (154-164): with the inbox
\* connection cached, getArbTxId awaits client.getVmID() when its first
\* delivery event is a transaction and vmIdCache is empty, and returns
GmrGetArbTxId ==
    /\ ppc = "arbTxId"
    /\ globalInboxCache # None
    /\ IF NeedsVmId(Get(ethReceipt).logs) /\ vmIdCache = None
       THEN \/ ArbTxIdThrows /\ UNCHANGED vmIdCache
            \/ /\ vmIdCache' = Some(clientVmId)
               /\ ArbTxIdReturns(clientVmId)
       ELSE /\ ArbTxIdReturns(IF vmIdCache = None THEN clientVmId
                              ELSE Get(vmIdCache))
            /\ UNCHANGED vmIdCache
    /\ UNCHANGED <<deterministicAssertions, arbRollupCache, globalInboxCache,
                   clientVmId, method, txHash, ethReceipt, rawResult, proofSteps,
                   assertReceipt, pret, walletVars, resolverVars, rpcVars>>

\* lines 239-243: client.getMessageResult(arbTxHash)
GmrClientQuery ==
    /\ ppc = "query"
    /\ \/ /\ gmr' = GmrError /\ ppc' = "perform" /\ rawResult' = None
       \/ /\ gmr' = GmrNull /\ ppc' = "perform" /\ rawResult' = None
       \/ \E raw \in RawResults(arbTxHash) :
             /\ rawResult' = Some(raw)
             /\ gmr' = gmr
             /\ ppc' = "check"
    /\ ethReceipt' = None
    /\ UNCHANGED <<providerFields, method, txHash, arbTxHash, proofSteps,
                   assertReceipt, pret, walletVars, resolverVars, rpcVars>>

\* the id comparison of line 251 left out
idMatchesMutant(queried, val) == TRUE

\* line 248-251: txHashCheck = result.incoming.messageID(); arbTxHash === txHashCheck
idMatches(queried, val) == queried = val.id

\* lines 244-266: the id check, then the early return of an unproven result
GmrCheckId ==
    /\ ppc = "check"
    /\ LET raw == Get(rawResult)
       IN  IF ~idMatches(arbTxHash, raw.val)
           THEN gmr' = GmrError /\ ppc' = "perform"
           ELSE IF raw.proof = None
           THEN gmr' = GmrResult(arbTxHash, raw.nodeInfo) /\ ppc' = "perform"
           ELSE IF raw.nodeInfo = None            \* nodeInfo.l1TxHash throws
           THEN gmr' = GmrError /\ ppc' = "perform"
           ELSE IF Get(raw.nodeInfo).l1TxHash = None
           THEN gmr' = GmrResult(arbTxHash, raw.nodeInfo) /\ ppc' = "perform"
           ELSE gmr' = gmr /\ ppc' = "logsProof"
    /\ UNCHANGED <<providerFields, method, txHash, ethReceipt, arbTxHash,
                   rawResult, proofSteps, assertReceipt, pret, walletVars, resolverVars, rpcVars>>

\* lines 268-271: step 1, log inclusion
GmrLogsProof ==
    /\ ppc = "logsProof"
    /\ proofSteps' = proofSteps \cup {"logs"}
    /\ IF processLogsProof(Get(rawResult).val, Get(Get(rawResult).proof))
       THEN gmr' = gmr /\ ppc' = "assertion"
       ELSE gmr' = GmrError /\ ppc' = "perform"
    /\ UNCHANGED <<providerFields, method, txHash, ethReceipt, arbTxHash,
                   rawResult, assertReceipt, pret, walletVars, resolverVars, rpcVars>>

FlipCase(a) == [a EXCEPT !.cs = ~a.cs]
OtherAddr(a) == [a EXCEPT !.base = CHOOSE b \in Addrs : b # a.base]
OtherNode(n) == CHOOSE m \in NodeHashes : m # n
ConfCounts == {2}

\* logs of the transaction named by nodeInfo.l1TxHash: a foreign log, another
\* rollup event, and RollupAsserted events that are right or wrong in one field
AssertLogAlphabet(vmId, nodeInfo, proof) ==
    {ForeignLog, ConfirmedLog(vmId),
     AssertedLog(vmId, proof.logPostHash, nodeInfo.nodeHash),
     AssertedLog(FlipCase(vmId), proof.logPostHash, nodeInfo.nodeHash),
     AssertedLog(OtherAddr(vmId), proof.logPostHash, nodeInfo.nodeHash),
     AssertedLog(vmId, solidityKeccak256(proof.logPostHash, <<0>>), nodeInfo.nodeHash),
     AssertedLog(vmId, proof.logPostHash, OtherNode(nodeInfo.nodeHash))}

AssertReceipts(vmId, nodeInfo, proof) ==
    LET alphabet == AssertLogAlphabet(vmId, nodeInfo, proof)
    IN  {Receipt(None, c) : c \in ConfCounts}
        \cup {Receipt(Some(l), c) :
                 l \in LogLists(alphabet, alphabet \ {ConfirmedLog(vmId)}, MaxLogs),
                 c \in ConfCounts}

\* Step 2 (lines 273-286) is processConfirmedDisputableAssertion (505-557);
\* it gives way at waitForTransaction (line 512), at the client.getVmID() of
\* arbRollupConn (line 516) and at the client.getVmID() of getVmID (line
\* 526). While ppc = "assertion", no receipt read means the first is
\* awaited, an empty arbRollupCache the second, otherwise the third.

\* step 2 ends with an error
AssertionThrows ==
    /\ gmr' = GmrError
    /\ ppc' = "perform"
    /\ proofSteps' = proofSteps \cup {"assertion"}

\* lines 527-556 and 278-285: the three checks with the chain id vmId, and
\* the result getMessageResult returns when they pass
AssertionVerdict(rc, rawLog, vmId) ==
    LET nodeInfo == Get(Get(rawResult).nodeInfo)
        proof == Get(Get(rawResult).proof)
    IN  /\ ppc' = "perform"
        /\ proofSteps' = proofSteps \cup {"assertion"}
        /\ gmr' = IF assertionChecks(rawLog, vmId, nodeInfo, proof)
                  THEN GmrResult(arbTxHash,
                          Some([nodeInfo EXCEPT !.l1Confirmations =
                                    Some(rc.confirmations)]))
                  ELSE GmrError

\* lines 517-526, once arbRollupConn returned: the events are parsed and
\* the RollupAsserted event looked for; then getVmID() is awaited, or
\* answers from its cache
AssertionAfterRollup(rc) ==
    LET logs == Get(rc.logs)
        fi == findIndexCDA(logs)
    IN  IF fi.throws \/ fi.index = 0
        THEN AssertionThrows
        ELSE IF vmIdCache = None
        THEN UNCHANGED <<gmr, ppc, proofSteps>>
        ELSE AssertionVerdict(rc, logs[fi.index], Get(vmIdCache))

\* lines 512-516: waitForTransaction is answered or rejected; a receipt
\* with logs takes the code into arbRollupConn
GmrAssertionReceipt ==
    /\ ppc = "assertion"
    /\ assertReceipt = None
    /\ LET nodeInfo == Get(Get(rawResult).nodeInfo)
           proof == Get(Get(rawResult).proof)
       IN  \/ AssertionThrows /\ UNCHANGED assertReceipt
           \/ \E rc \in AssertReceipts(clientVmId, nodeInfo, proof) :
                 /\ assertReceipt' = Some(rc)
                 /\ IF rc.logs = None
                    THEN AssertionThrows
                    ELSE IF arbRollupCache = None
                    THEN UNCHANGED <<gmr, ppc, proofSteps>>
                    ELSE AssertionAfterRollup(rc)
    /\ UNCHANGED <<providerFields, method, txHash, ethReceipt, arbTxHash,
                   rawResult, pret, walletVars, resolverVars, rpcVars>>

\* lines 516 and 119-122: client.getVmID() of arbRollupConn is answered and
\* arbRollupCache assigned, or it is rejected
GmrAssertionRollupConn ==
    /\ ppc = "assertion"
    /\ assertReceipt # None
    /\ arbRollupCache = None
    /\ \/ AssertionThrows /\ UNCHANGED arbRollupCache
       \/ /\ arbRollupCache' = Some(clientVmId)
          /\ AssertionAfterRollup(Get(assertReceipt))
    /\ UNCHANGED <<deterministicAssertions, vmIdCache, globalInboxCache, clientVmId,
                   method, txHash, ethReceipt, arbTxHash, rawResult, assertReceipt,
                   pret, walletVars, resolverVars, rpcVars>>

\* lines 526-556 and 156-161: client.getVmID() of getVmID is answered and
\* vmIdCache assigned, or it is rejected; then the three checks
GmrAssertion ==
    /\ ppc = "assertion"
    /\ assertReceipt # None
    /\ arbRollupCache # None
    /\ LET rc == Get(assertReceipt)
           logs == Get(rc.logs)
       IN  \/ AssertionThrows /\ UNCHANGED vmIdCache
           \/ /\ vmIdCache' = Some(clientVmId)
              /\ AssertionVerdict(rc, logs[findIndexCDA(logs).index], clientVmId)
    /\ UNCHANGED <<deterministicAssertions, arbRollupCache, globalInboxCache,
                   clientVmId, method, txHash, ethReceipt, arbTxHash, rawResult,
                   assertReceipt, pret, walletVars, resolverVars, rpcVars>>

\* ------------------------------------------------------------------ perform
Methods == {"getTransactionReceipt", "getTransaction"}

\* any identifier a caller may pass: a base-chain hash or a rollup id
AnyIds == {L1Hash(1), calculateTransactionHash(clientVmId, 1, 1, 0, 0, 0)}

StartCall(m, h) ==
    /\ method' = m
    /\ txHash' = h
    /\ ppc' = "receipt"
    /\ ethReceipt' = None
    /\ arbTxHash' = 0
    /\ rawResult' = None
    /\ proofSteps' = {}
    /\ assertReceipt' = None
    /\ gmr' = GmrNone
    /\ pret' = PretNone

\* a caller invokes perform(method, {transactionHash})
PerformStart ==
    /\ ppc = "idle"
    /\ \E m \in Methods, h \in AnyIds : StartCall(m, h)
    /\ UNCHANGED <<providerFields, walletVars, resolverVars, rpcVars>>

\* lines 324-332: the confirmation count of a receipt
receiptConfirmations(det, currentBlockNum, messageBlockNum, nodeInfoOpt) ==
    IF det THEN currentBlockNum - messageBlockNum + 1
    ELSE IF nodeInfoOpt # None /\ Get(nodeInfoOpt).l1Confirmations # None
    THEN Get(Get(nodeInfoOpt).l1Confirmations)
    ELSE 0

\* lines 311-360: case 'getTransactionReceipt' after getMessageResult settled
PerformGetTransactionReceipt ==
    /\ ppc = "perform"
    /\ method = "getTransactionReceipt"
    /\ IF gmr.kind = "error" THEN pret' = PretError
       ELSE IF gmr.kind = "null" THEN pret' = PretNull
       ELSE LET val == Get(rawResult).val
            IN  \/ deterministicAssertions /\ pret' = PretError \* getBlockNumber rejects
                \/ \E cur \in BlockNums :
                      LET confirmations ==
                              receiptConfirmations(deterministicAssertions, cur,
                                                   val.blockNumber, gmr.nodeInfo)
                      IN  IF ~val.isL2Tx \/ gmr.nodeInfo = None
                          THEN pret' = PretError
                          ELSE pret' = [kind |-> "receipt",
                                        hash |-> gmr.txHash,
                                        confirmations |-> Some(confirmations),
                                        blockHash |-> Some(Get(gmr.nodeInfo).nodeHash)]
    /\ ppc' = "done"
    /\ assertReceipt' = None
    /\ UNCHANGED <<providerFields, method, txHash, ethReceipt, arbTxHash,
                   rawResult, proofSteps, gmr, walletVars, resolverVars, rpcVars>>

\* the response carrying the identifier the caller passed in
transactionResponseMutant(h, nodeInfoOpt) ==
    IF nodeInfoOpt = None
    THEN [kind |-> "tx", hash |-> txHash, confirmations |-> None, blockHash |-> None]
    ELSE [kind |-> "tx", hash |-> txHash,
          confirmations |-> Some(GetTransactionConfirmations),
          blockHash |-> Some(Get(nodeInfoOpt).nodeHash)]

\* lines 377-397: the response getMessageRequest builds
transactionResponse(h, nodeInfoOpt) ==
    IF nodeInfoOpt = None
    THEN [kind |-> "tx", hash |-> h, confirmations |-> None, blockHash |-> None]
    ELSE [kind |-> "tx", hash |-> h,
          confirmations |-> Some(GetTransactionConfirmations),
          blockHash |-> Some(Get(nodeInfoOpt).nodeHash)]

\* the task getMessageRequest yields a value: a result that is an L2
\* transaction (lines 363-397)
TaskHasValue == gmr.kind = "result" /\ Get(rawResult).val.isL2Tx

\* the task getMessageRequest rejects: getMessageResult threw, or the result
\* is not an L2 transaction (lines 368-375)
TaskRejects ==
    \/ gmr.kind = "error"
    \/ gmr.kind = "result" /\ ~Get(rawResult).val.isL2Tx

\* promise-poller's default shouldContinue: poll again only after a rejection
shouldContinueMutant(reason, value) == reason

\* lines 402-410: reason is "the task rejected", value is "the task resolved
\* with a truthy value"
shouldContinue(reason, value) ==
    IF reason THEN TRUE
    ELSE IF value THEN FALSE
    ELSE TRUE

\* lines 361-413: case 'getTransaction', the poller settling with the task's
\* outcome because shouldContinue said no
PerformGetTransaction ==
    /\ ppc = "perform"
    /\ method = "getTransaction"
    /\ ~shouldContinue(TaskRejects, TaskHasValue)
    /\ pret' = IF TaskRejects THEN PretError
               ELSE IF TaskHasValue THEN transactionResponse(gmr.txHash, gmr.nodeInfo)
               ELSE PretNull
    /\ ppc' = "done"
    /\ assertReceipt' = None
    /\ UNCHANGED <<providerFields, method, txHash, ethReceipt, arbTxHash,
                   rawResult, proofSteps, gmr, walletVars, resolverVars, rpcVars>>

\* lines 400-412: shouldContinue is true for a rejection and for null, and
\* the task runs again after the interval
PerformGetTransactionPoll ==
    /\ ppc = "perform"
    /\ method = "getTransaction"
    /\ shouldContinue(TaskRejects, TaskHasValue)
    /\ ppc' = "receipt"
    /\ ethReceipt' = None
    /\ arbTxHash' = 0
    /\ rawResult' = None
    /\ proofSteps' = {}
    /\ assertReceipt' = None
    /\ gmr' = GmrNone
    /\ UNCHANGED <<providerFields, method, txHash, pret, walletVars, resolverVars, rpcVars>>

\* line 400: the poller is given no retries option. promise-poller counts
\* rejected attempts against its retry budget before it asks shouldContinue,
\* and rejects once the budget is spent; attempts that resolve are not
\* counted. The budget is not counted here: a rejected attempt is either
\* followed by another attempt or is the one that spends the budget.
PerformGetTransactionGiveUp ==
    /\ ppc = "perform"
    /\ method = "getTransaction"
    /\ TaskRejects
    /\ pret' = PretError
    /\ ppc' = "done"
    /\ assertReceipt' = None
    /\ UNCHANGED <<providerFields, method, txHash, ethReceipt, arbTxHash,
                   rawResult, proofSteps, gmr, walletVars, resolverVars, rpcVars>>

\* ================================================================ ArbWallet
\* JavaScript truthiness of an optional number: undefined and 0 are falsy
truthy(o) == o # None /\ Get(o) # 0

\* generateAndIncrementSeq storing the value it returns
nextSeqCacheMutant(seq) == seq

\* lines 60 and 64: the counter after seq was handed out
nextSeqCache(seq) == seq + 1

\* lines 227-230: the catch block of sendTransactionMessage
rollback(cache) == IF truthy(cache) THEN Some(Get(cache) - 1) ELSE cache

\* destinations of the wallet's messages: a contract other than the sender
Dests == {2}

L2Tx(to, seq, value, data) == [to |-> to, seq |-> seq, value |-> value, data |-> data]

\* L2Transaction.messageID(sender), line 187: an id of the message's own
\* fields and the sender, collision-free over them; the call passes no
\* chain id
messageID(l2tx, sender) ==
    100000 + ((((l2tx.to * 3 + sender) * (MaxSeq + 1) + l2tx.seq) * 2 + l2tx.value)
                * 2 + l2tx.data)

FlowIdle == [pc |-> "idle", sends |-> 0, reserves |-> 0, reserved |-> FALSE,
             to |-> 1, seq |-> None, vmId |-> None,
             out |-> "none", hash |-> 0, failedAt |-> "", logIdx |-> 0,
             dispatch |-> "none", op |-> "none", gasLimit |-> TRUE,
             gasPrice |-> TRUE, before |-> None, cold |-> FALSE]

\* the flow's call ends with an error raised at step
Fails(f, step, cache) ==
    /\ wf' = [wf EXCEPT ![f].pc = "idle", ![f].out = "error", ![f].failedAt = step]
    /\ seqCache' = cache
    /\ seqLog' = IF wf[f].logIdx = 0 THEN seqLog
                 ELSE [seqLog EXCEPT ![wf[f].logIdx].fate = "failed",
                                     ![wf[f].logIdx].at = step]

\* sendTransaction going on although no gas price was given
gasCheckedMutant(gasLimit, gasPrice) == gasLimit

\* lines 238-245: both fields must be truthy (TRUE stands for a field that
\* is given and not zero)
gasChecked(gasLimit, gasPrice) == gasLimit /\ gasPrice

\* lines 235-246: sendTransaction up to the reservation
SendTransaction(f) ==
    /\ ppc = "idle"
    /\ wf[f].pc = "idle"
    /\ wf[f].sends < MaxSends
    /\ \E gasLimit \in BOOLEAN, gasPrice \in BOOLEAN, to \in Dests :
          LET gasOk == gasChecked(gasLimit, gasPrice)
          IN  wf' = [wf EXCEPT ![f] =
                        [FlowIdle EXCEPT !.sends = wf[f].sends + 1,
                                         !.reserves = wf[f].reserves,
                                         !.op = "sendTransaction",
                                         !.to = to,
                                         !.gasLimit = gasLimit,
                                         !.gasPrice = gasPrice,
                                         !.before = seqCache,
                                         !.pc = IF gasOk THEN "gen" ELSE "idle",
                                         !.out = IF gasOk THEN "none" ELSE "error",
                                         !.failedAt = IF gasOk THEN "" ELSE "gas"]]
    /\ UNCHANGED <<providerFields, callVars, walletFields, walletEnv, flows,
                   seqLog, handles, countQueries, resolverVars, rpcVars>>

\* lines 44-45, 52: generateSeq called by itself, up to its first await
GenerateSeq(f) ==
    /\ ppc = "idle"
    /\ wf[f].pc = "idle"
    /\ wf[f].sends < MaxSends
    /\ wf' = [wf EXCEPT ![f] =
                 [FlowIdle EXCEPT !.sends = wf[f].sends + 1,
                                  !.reserves = wf[f].reserves,
                                  !.op = "generateSeq",
                                  !.before = seqCache,
                                  !.pc = IF truthy(seqCache) THEN "idle" ELSE "seqQuery",
                                  !.out = IF truthy(seqCache) THEN "ok" ELSE "none",
                                  !.seq = IF truthy(seqCache) THEN seqCache ELSE None]]
    /\ UNCHANGED <<providerFields, callVars, walletFields, walletEnv, flows,
                   seqLog, handles, countQueries, resolverVars, rpcVars>>

\* lines 46-50: generateSeq's getAddress and getTransactionCount answered,
\* or one rejected
GenerateSeqAnswered(f) ==
    /\ wf[f].pc = "seqQuery"
    /\ \/ Fails(f, "count", seqCache) /\ UNCHANGED countQueries
       \/ /\ seqCache' = Some(txCount)
          /\ countQueries' = countQueries + 1
          /\ wf' = [wf EXCEPT ![f].pc = "idle", ![f].out = "ok",
                               ![f].seq = Some(txCount)]
          /\ UNCHANGED seqLog
    /\ UNCHANGED <<providerFields, callVars, pubkey, walletInboxCache, walletEnv,
                   flows, handles, resolverVars, rpcVars>>

\* line 183 up to the first query awaited: provider.getVmID() answers from
\* vmIdCache (line 155) and the code goes on to getAddress(), or it awaits
\* client.getVmID()
StmEnters == IF vmIdCache = None THEN "vmid" ELSE "addr"

\* lines 68-73: incrementSeq, a call of its own that no flow of the wallet
\* makes. It tests `=== undefined`, so a counter of 0 is advanced too; with
\* no counter it throws and nothing changes
IncrementSeq ==
    /\ seqCache # None
    /\ Get(seqCache) < MaxCounter
    /\ seqCache' = Some(Get(seqCache) + 1)
    /\ UNCHANGED <<providerFields, callVars, pubkey, walletInboxCache, walletEnv,
                   flows, wf, seqLog, handles, countQueries, resolverVars, rpcVars>>

\* lines 180-183: sendTransactionMessage called by itself, up to its first
\* awaited query: with the number a generateAndIncrementSeq call of the
\* flow just returned (reserved), with the number generateSeq just
\* returned, or with one the caller supplies
SendTransactionMessage(f) ==
    /\ ppc = "idle"
    /\ wf[f].pc = "idle"
    /\ wf[f].sends < MaxSends
    /\ \E to \in Dests, reserved \in BOOLEAN :
          /\ reserved => wf[f].op = "generateAndIncrementSeq" /\ wf[f].out = "ok"
          /\ \E seq \in IF reserved THEN {Get(wf[f].seq)}
                         ELSE {txCount} \cup
                              (IF wf[f].op = "generateSeq" /\ wf[f].out = "ok"
                               THEN {Get(wf[f].seq)} ELSE {}) :
                wf' = [wf EXCEPT ![f] =
                          [FlowIdle EXCEPT !.sends = wf[f].sends + 1,
                                           !.reserves = wf[f].reserves,
                                           !.op = "sendTransactionMessage",
                                           !.to = to,
                                           !.seq = Some(seq),
                                           !.reserved = reserved,
                                           !.logIdx = IF reserved THEN wf[f].logIdx
                                                      ELSE 0,
                                           !.before = seqCache,
                                           !.vmId = vmIdCache,
                                           !.pc = StmEnters]]
    /\ UNCHANGED <<providerFields, callVars, walletFields, walletEnv, flows,
                   seqLog, handles, countQueries, resolverVars, rpcVars>>

\* the flow as generateAndIncrementSeq finds it: inside sendTransaction
\* (line 246), or idle and beginning a call of its own
Reserving(f) ==
    IF wf[f].pc = "gen" THEN wf[f]
    ELSE [FlowIdle EXCEPT !.sends = wf[f].sends,
                          !.reserves = wf[f].reserves + 1,
                          !.op = "generateAndIncrementSeq",
                          !.before = seqCache]

\* lines 60-61, 64-65: generateAndIncrementSeq returns seq in flow fl, to
\* sendTransaction, which goes on to await the fields of lines 251-253, or
\* to the caller of a call of its own
Reserved(fl, seq, idx) ==
    IF fl.op = "sendTransaction"
    THEN [fl EXCEPT !.pc = "fields", !.seq = Some(seq), !.reserved = TRUE,
                    !.logIdx = idx]
    ELSE [fl EXCEPT !.pc = "idle", !.out = "ok", !.seq = Some(seq),
                    !.logIdx = idx]

\* the entry of the log for a number handed out in flow fl
Handed(fl, f, seq, cold) ==
    [n |-> seq, flow |-> f, cold |-> cold, at |-> "",
     fate |-> IF fl.op = "sendTransaction" THEN "pending" ELSE "returned"]

\* lines 55-56, 63-65: generateAndIncrementSeq up to its first await, called
\* by sendTransaction (line 246) or by itself; with a number cached it
\* returns it
GenerateAndIncrementSeq(f) ==
    /\ wf[f].pc \in {"gen", "idle"}
    /\ wf[f].pc = "idle" => ppc = "idle" /\ wf[f].reserves < MaxReserves
    /\ IF truthy(seqCache)
       THEN /\ seqCache' = Some(nextSeqCache(Get(seqCache)))
            /\ seqLog' = Append(seqLog, Handed(Reserving(f), f, Get(seqCache), FALSE))
            /\ wf' = [wf EXCEPT ![f] = Reserved(Reserving(f), Get(seqCache),
                                                Len(seqLog) + 1)]
       ELSE /\ wf' = [wf EXCEPT ![f] = [Reserving(f) EXCEPT !.pc = "genQuery",
                                                            !.cold = TRUE]]
            /\ UNCHANGED <<seqCache, seqLog>>
    /\ UNCHANGED <<providerFields, callVars, pubkey, walletInboxCache, walletEnv,
                   flows, handles, countQueries, resolverVars, rpcVars>>

\* lines 57-61: getAddress and getTransactionCount answered and the number
\* returned, or one rejected
GenerateSeqQueried(f) ==
    /\ wf[f].pc = "genQuery"
    /\ \/ Fails(f, "count", seqCache) /\ UNCHANGED countQueries
       \/ /\ seqCache' = Some(nextSeqCache(txCount))
          /\ countQueries' = countQueries + 1
          /\ seqLog' = Append(seqLog, Handed(wf[f], f, txCount, TRUE))
          /\ wf' = [wf EXCEPT ![f] = Reserved(wf[f], txCount, Len(seqLog) + 1)]
    /\ UNCHANGED <<providerFields, callVars, pubkey, walletInboxCache, walletEnv,
                   flows, handles, resolverVars, rpcVars>>

\* lines 247-255 and 183: sendTransaction awaits transaction.to, .value and
\* .data with the number reserved, outside any try block; one of them
\* rejects, or the message is built and sendTransactionMessage runs up to
\* its first awaited query
SendTransactionFields(f) ==
    /\ wf[f].pc = "fields"
    /\ \/ Fails(f, "fields", seqCache)
       \/ /\ wf' = [wf EXCEPT ![f].pc = StmEnters, ![f].vmId = vmIdCache]
          /\ UNCHANGED <<seqCache, seqLog>>
    /\ UNCHANGED <<providerFields, callVars, pubkey, walletInboxCache, walletEnv,
                   flows, handles, countQueries, resolverVars, rpcVars>>

\* lines 183 and 156-161: client.getVmID() is answered or rejected, before
\* the try block; getVmID assigns vmIdCache when it is still empty and
\* returns the answer it received
StmGetVmID(f) ==
    /\ wf[f].pc = "vmid"
    /\ \/ /\ Fails(f, "vmid", seqCache)
          /\ UNCHANGED vmIdCache
       \/ /\ vmIdCache' = IF vmIdCache = None THEN Some(clientVmId) ELSE vmIdCache
          /\ wf' = [wf EXCEPT ![f].pc = "addr", ![f].vmId = Some(clientVmId)]
          /\ UNCHANGED <<seqCache, seqLog>>
    /\ UNCHANGED <<deterministicAssertions, arbRollupCache, globalInboxCache,
                   clientVmId, callVars, pubkey, walletInboxCache, walletEnv,
                   flows, handles, countQueries, resolverVars, rpcVars>>

\* lines 184-186, 222 and 76-77: getAddress() is answered or rejected,
\* before the try block. With an aggregator signMessage is awaited next;
\* without one the code enters wallet.globalInboxConn, which returns the
\* wallet's cache (line 76), or calls provider.globalInboxConn and awaits
\* it (line 77): that one answers from globalInboxCache (part_000 133), or
\* awaits arbRollup.globalInbox() (135) or, under arbRollupConn, first
\* client.getVmID() (120). Nothing is assigned in this step
StmGetAddress(f) ==
    /\ wf[f].pc = "addr"
    /\ \/ Fails(f, "addr", seqCache)
       \/ /\ wf' = [wf EXCEPT ![f].pc =
                        IF hasAggregator THEN "sign"
                        ELSE IF walletInboxCache # None THEN "send"
                        ELSE IF globalInboxCache # None THEN "inboxWrite"
                        ELSE IF arbRollupCache # None THEN "inboxConn"
                        ELSE "arbRollupConn"]
          /\ UNCHANGED <<seqCache, seqLog>>
    /\ UNCHANGED <<providerFields, callVars, pubkey, walletInboxCache, walletEnv,
                   flows, handles, countQueries, resolverVars, rpcVars>>

\* the flow's call returns a handle with this hash
Returns(f, h, path, dispatch) ==
    /\ wf' = [wf EXCEPT ![f].pc = "idle", ![f].out = "ok", ![f].hash = h,
                         ![f].dispatch = dispatch]
    /\ seqLog' = IF wf[f].logIdx = 0 THEN seqLog
                 ELSE [seqLog EXCEPT ![wf[f].logIdx].fate = "ok"]
    /\ handles' = handles \cup {[hash |-> h, path |-> path]}

\* lines 186-220: the aggregator path. signMessage is awaited; the promise of
\* aggregator.sendTransaction is dropped, so its rejection reaches nobody
StmAggregator(f) ==
    /\ wf[f].pc = "sign"
    /\ LET l2tx == L2Tx(wf[f].to, Get(wf[f].seq), 0, 0)
           msgId == messageID(l2tx, signerAddr)
       IN  \/ /\ Fails(f, "sign", rollback(seqCache))
              /\ UNCHANGED <<pubkey, aggSent, handles>>
           \/ \E accepted \in BOOLEAN :
                 /\ pubkey' = IF pubkey = None THEN Some(signerAddr) ELSE pubkey
                 /\ aggSent' = Append(aggSent, [hash |-> msgId, l2tx |-> l2tx,
                                                accepted |-> accepted])
                 /\ Returns(f, msgId, "aggregator",
                            IF accepted THEN "accepted" ELSE "rejected")
                 /\ UNCHANGED seqCache
    /\ UNCHANGED <<providerFields, callVars, walletInboxCache, hasAggregator,
                   txCount, signerAddr, l1Sent, flows, countQueries, resolverVars, rpcVars>>

\* lines 119-122 and 135 under line 222: client.getVmID() of arbRollupConn
\* is answered and arbRollupCache assigned, and arbRollup.globalInbox() is
\* awaited; or it is rejected, inside the try block
StmArbRollupConn(f) ==
    /\ wf[f].pc = "arbRollupConn"
    /\ \/ Fails(f, "inboxConn", rollback(seqCache)) /\ UNCHANGED arbRollupCache
       \/ /\ arbRollupCache' = Some(clientVmId)
          /\ wf' = [wf EXCEPT ![f].pc = "inboxConn"]
          /\ UNCHANGED <<seqCache, seqLog>>
    /\ UNCHANGED <<deterministicAssertions, vmIdCache, globalInboxCache, clientVmId,
                   callVars, pubkey, walletInboxCache, walletEnv, flows, handles,
                   countQueries, resolverVars, rpcVars>>

\* part_000 lines 135-141 under wallet.ts line 77: arbRollup.globalInbox()
\* is answered and the provider assigns its cache (line 140), the wallet
\* still awaiting at line 77; or it is rejected, inside the try block
StmInboxConn(f) ==
    /\ wf[f].pc = "inboxConn"
    /\ \/ /\ Fails(f, "inboxConn", rollback(seqCache))
          /\ UNCHANGED globalInboxCache
       \/ /\ globalInboxCache' = Some(InboxAddr)
          /\ wf' = [wf EXCEPT ![f].pc = "inboxWrite"]
          /\ UNCHANGED <<seqCache, seqLog>>
    /\ UNCHANGED <<deterministicAssertions, vmIdCache, arbRollupCache, clientVmId,
                   callVars, pubkey, walletInboxCache, walletEnv, flows, handles,
                   countQueries, resolverVars, rpcVars>>

\* wallet.ts lines 77-80 and 222-223: the await of line 77 resumes, in a
\* turn after the one that read the wallet's cache empty; the wallet
\* assigns its cache (line 79), whatever it holds by now, and
\* sendL2Message is called
StmWalletInboxWrite(f) ==
    /\ wf[f].pc = "inboxWrite"
    /\ walletInboxCache' = Some(InboxAddr)
    /\ wf' = [wf EXCEPT ![f].pc = "send"]
    /\ UNCHANGED <<providerFields, callVars, pubkey, seqCache, walletEnv, flows,
                   seqLog, handles, countQueries, resolverVars, rpcVars>>

\* lines 223-225: globalInbox.sendL2Message(vmId, l2tx.asData())
StmSendL2Message(f) ==
    /\ wf[f].pc = "send"
    /\ LET l2tx == L2Tx(wf[f].to, Get(wf[f].seq), 0, 0)
           h == L1Hash(Len(l1Sent) + 1)
       IN  \/ /\ Fails(f, "send", rollback(seqCache))
              /\ UNCHANGED <<l1Sent, handles>>
           \/ /\ l1Sent' = Append(l1Sent, [hash |-> h, chain |-> Get(wf[f].vmId),
                                            l2tx |-> l2tx, sender |-> signerAddr])
              /\ Returns(f, h, "direct", "none")
              /\ UNCHANGED seqCache
    /\ UNCHANGED <<providerFields, callVars, pubkey, walletInboxCache,
                   hasAggregator, txCount, signerAddr, aggSent, flows,
                   countQueries, resolverVars, rpcVars>>

\* ------------------------------------------- resolvers called concurrently
\* Each caller is an async call chain of its own; it gives way to the others
\* at every await of a network query.
Callers == {1, 2}
ResolverOps == {"getVmID", "arbRollupConn", "globalInboxConn", "walletInboxConn"}
CallerIdle == [pc |-> "idle", op |-> "", calls |-> 0, outs |-> <<>>, ret |-> None]

\* what client.getVmID() may answer: the validator is not bound to give the
\* same answer twice
VmIdAnswers == {clientVmId, OtherAddr(clientVmId)}

resolverFrame == <<deterministicAssertions, clientVmId, callVars, seqCache, pubkey,
                   walletEnv, flows, wf, seqLog, handles, countQueries, rpcVars>>

\* a resolver that never finds its cache empty
coldMutant(cache) == FALSE

\* `!this.vmIdCache`, `!this.arbRollupCache`, `!this.globalInboxCache`
cold(cache) == cache = None

\* where a call of op first gives way: at the query it issues, at the
\* continuation after an inner call that found its cache filled, or not at
\* all ("ret") when its own cache is filled
FirstAwait(op) ==
    IF op = "getVmID"
    THEN (IF cold(vmIdCache) THEN "vmIdQ" ELSE "ret")
    ELSE IF op = "arbRollupConn"
    THEN (IF cold(arbRollupCache) THEN "rollupQ" ELSE "ret")
    ELSE IF op = "globalInboxConn"
    THEN (IF ~cold(globalInboxCache) THEN "ret"
          ELSE IF cold(arbRollupCache) THEN "rollupQ" ELSE "inboxCall")
    ELSE (IF ~cold(walletInboxCache) THEN "ret"
          ELSE IF ~cold(globalInboxCache) THEN "walletW"
          ELSE IF cold(arbRollupCache) THEN "rollupQ" ELSE "inboxCall")

\* the call of caller c ends with outcome out
CallerDone(c, out) ==
    callers' = [callers EXCEPT ![c].pc = "idle", ![c].outs = Append(@, out)]

\* lines 118-119, 132-134, 154-156 and wallet.ts 75-77: a call runs up to
\* its first await; client.getVmID is issued there when the cache is empty
ResolverStart(c) ==
    /\ callers[c].pc = "idle"
    /\ callers[c].calls < MaxCalls
    /\ \E op \in ResolverOps :
          LET at == FirstAwait(op)
          IN  /\ callers' = [callers EXCEPT
                    ![c].op = op,
                    ![c].calls = @ + 1,
                    ![c].pc = IF at = "ret" THEN "idle" ELSE at,
                    ![c].outs = IF at = "ret" THEN Append(@, "ok") ELSE @,
                    ![c].ret = IF at = "ret" /\ op = "getVmID" THEN vmIdCache
                               ELSE None]
              /\ netQueries' = [netQueries EXCEPT
                    !.vmId = IF at = "vmIdQ" THEN @ + 1 ELSE @,
                    !.rollup = IF at = "rollupQ" THEN @ + 1 ELSE @]
    /\ UNCHANGED <<resolverFrame, vmIdCache, arbRollupCache, globalInboxCache,
                   walletInboxCache, cacheWrites>>

\* lines 156-161: getVmID's query answered or rejected; the cache is looked
\* at again before it is assigned
VmIdAnswered(c) ==
    /\ callers[c].pc = "vmIdQ"
    /\ \/ /\ CallerDone(c, "error")
          /\ UNCHANGED <<vmIdCache, cacheWrites>>
       \/ \E vmId \in VmIdAnswers :
             /\ callers' = [callers EXCEPT ![c].pc = "idle",
                                           ![c].outs = Append(@, "ok"),
                                           ![c].ret = Some(vmId)]
             /\ IF cold(vmIdCache)
                THEN /\ vmIdCache' = Some(vmId)
                     /\ cacheWrites' = [cacheWrites EXCEPT !.vmId = @ + 1]
                ELSE UNCHANGED <<vmIdCache, cacheWrites>>
    /\ UNCHANGED <<resolverFrame, arbRollupCache, globalInboxCache,
                   walletInboxCache, netQueries>>

\* lines 120-123: arbRollupConn's query answered or rejected; the cache is
\* assigned without another look
RollupAnswered(c) ==
    /\ callers[c].pc = "rollupQ"
    /\ \/ /\ CallerDone(c, "error")
          /\ UNCHANGED <<arbRollupCache, cacheWrites>>
       \/ \E vmID \in VmIdAnswers :
             /\ arbRollupCache' = Some(vmID)
             /\ cacheWrites' = [cacheWrites EXCEPT !.rollup = @ + 1]
             /\ IF callers[c].op = "arbRollupConn"
                THEN CallerDone(c, "ok")
                ELSE callers' = [callers EXCEPT ![c].pc = "inboxCall"]
    /\ UNCHANGED <<resolverFrame, vmIdCache, globalInboxCache, walletInboxCache,
                   netQueries>>

\* line 135: globalInboxConn going on after arbRollupConn returned, issuing
\* arbRollup.globalInbox()
InboxCall(c) ==
    /\ callers[c].pc = "inboxCall"
    /\ callers' = [callers EXCEPT ![c].pc = "inboxQ"]
    /\ netQueries' = [netQueries EXCEPT !.inbox = @ + 1]
    /\ UNCHANGED <<resolverFrame, vmIdCache, arbRollupCache, globalInboxCache,
                   walletInboxCache, cacheWrites>>

\* lines 135-141: arbRollup.globalInbox() answered or rejected; the cache is
\* assigned without another look
InboxAnswered(c) ==
    /\ callers[c].pc = "inboxQ"
    /\ \/ /\ CallerDone(c, "error")
          /\ UNCHANGED <<globalInboxCache, cacheWrites>>
       \/ /\ globalInboxCache' = Some(InboxAddr)
          /\ cacheWrites' = [cacheWrites EXCEPT !.inbox = @ + 1]
          /\ IF callers[c].op = "globalInboxConn"
             THEN CallerDone(c, "ok")
             ELSE callers' = [callers EXCEPT ![c].pc = "walletW"]
    /\ UNCHANGED <<resolverFrame, vmIdCache, arbRollupCache, walletInboxCache,
                   netQueries>>

\* wallet.ts lines 77-80: the wallet's globalInboxConn going on after the
\* provider's returned; the cache is assigned without another look
WalletInboxWrite(c) ==
    /\ callers[c].pc = "walletW"
    /\ walletInboxCache' = Some(InboxAddr)
    /\ cacheWrites' = [cacheWrites EXCEPT !.walletInbox = @ + 1]
    /\ CallerDone(c, "ok")
    /\ UNCHANGED <<resolverFrame, vmIdCache, arbRollupCache, globalInboxCache,
                   netQueries>>

\* --------------------------------------------------------- provider.call
\* line 448: a block tag is a string or a block number; the argument is a
\* tag, a Promise of a tag, or omitted (None)
StrTag(s) == [kind |-> "str", s |-> s, n |-> 0]
NumTag(n) == [kind |-> "num", s |-> "", n |-> n]
TagValues ==
    {StrTag(s) : s \in {"pending", "latest", "earliest", ""}}
    \cup {NumTag(n) : n \in {0, 5}}
BlockTags ==
    {None} \cup {Some([promise |-> p, tag |-> t]) : p \in BOOLEAN, t \in TagValues}

\* line 467, `if (blockTag)`, tests the argument before it is awaited: an
\* omitted tag, the empty string and the number 0 are falsy, a Promise is
\* truthy whatever it resolves to
tagGiven(blockTag) ==
    /\ blockTag # None
    /\ \/ Get(blockTag).promise
       \/ /\ Get(blockTag).tag.kind = "str" => Get(blockTag).tag.s # ""
          /\ Get(blockTag).tag.kind = "num" => Get(blockTag).tag.n # 0

\* line 468, `await blockTag`: the tag itself, or the tag the Promise
\* resolves to
awaitTag(blockTag) == Get(blockTag).tag

\* lines 469, 471: tag == 'pending', tag == 'latest'
tagIs(tag, s) == tag.kind = "str" /\ tag.s = s

\* lines 458-464: callLatest
callLatest(det) == IF det THEN "pendingCall" ELSE "call"

\* lines 467-478: the validator query call issues for its blockTag
\* argument, "none" when it throws 'Invalid block tag'
callIssues(blockTag, det) ==
    IF tagGiven(blockTag)
    THEN IF tagIs(awaitTag(blockTag), "pending") THEN "pendingCall"
         ELSE IF tagIs(awaitTag(blockTag), "latest") THEN callLatest(det)
         ELSE "none"
    ELSE callLatest(det)

\* lines 446-484: provider.call; the validator's answer is a returned
\* value, a reverted one, or a rejection
Call ==
    /\ rpcCount < MaxRpc
    /\ \E blockTag \in BlockTags, answer \in {"return", "revert", "reject"} :
          LET issued == callIssues(blockTag, deterministicAssertions)
          IN  lastCall' = [made |-> TRUE,
                           promise |-> blockTag # None /\ Get(blockTag).promise,
                           tag |-> IF blockTag = None THEN None
                                   ELSE Some(awaitTag(blockTag)),
                           issued |-> issued,
                           out |-> IF issued # "none" /\ answer = "return"
                                   THEN "ok" ELSE "error"]
    /\ rpcCount' = rpcCount + 1
    /\ UNCHANGED <<providerFields, callVars, walletVars, resolverVars,
                   latestLocation, reported, resetEvents>>

\* ------------------------------------------------ perform('getBlockNumber')
Heights == 1..2
Locations == {NodeInfo(nh, h, None, None) : nh \in NodeHashes, h \in Heights}

\* a reset decided on the node height alone
headChangedMutant(latest, location) ==
    /\ latest # None
    /\ Get(latest).nodeHeight # location.nodeHeight

\* lines 429-433: a head is recorded and differs in height or in hash
headChanged(latest, location) ==
    /\ latest # None
    /\ \/ Get(latest).nodeHeight # location.nodeHeight
       \/ Get(latest).nodeHash # location.nodeHash

\* lines 421-439: the head query (getLatestPendingNodeLocation or
\* getLatestNodeLocation, by deterministicAssertions) rejects, or answers
\* with a location or with none
GetBlockNumber ==
    /\ rpcCount < MaxRpc
    /\ rpcCount' = rpcCount + 1
    /\ \/ UNCHANGED <<latestLocation, reported, resetEvents>>
       \/ \E loc \in {None} \cup {Some(l) : l \in Locations} :
             /\ reported' = Append(reported, loc)
             /\ IF loc # None
                THEN /\ resetEvents' = IF headChanged(latestLocation, Get(loc))
                                       THEN Append(resetEvents, Get(loc).nodeHeight)
                                       ELSE resetEvents
                     /\ latestLocation' = loc
                ELSE UNCHANGED <<latestLocation, resetEvents>>
    /\ UNCHANGED <<providerFields, callVars, walletVars, resolverVars, lastCall>>

\* ------------------------------------------------------------ construction
\* ArbProvider's constructor (lines 97-116): every cache empty
InitProviderFields ==
    /\ deterministicAssertions \in BOOLEAN
    /\ vmIdCache = None
    /\ arbRollupCache = None
    /\ globalInboxCache = None
    /\ clientVmId = [base |-> 1, cs |-> TRUE]

InitCall ==
    /\ method = ""
    /\ txHash = 0
    /\ ppc = "idle"
    /\ ethReceipt = None
    /\ arbTxHash = 0
    /\ rawResult = None
    /\ proofSteps = {}
    /\ assertReceipt = None
    /\ gmr = GmrNone
    /\ pret = PretNone

\* ArbWallet's constructor (wallet.ts lines 36-42)
InitWalletFields ==
    /\ seqCache = None
    /\ pubkey = None
    /\ walletInboxCache = None

InitWalletEnv ==
    /\ hasAggregator \in BOOLEAN
    /\ txCount \in 0..MaxInitCount
    /\ signerAddr = 1
    /\ l1Sent = <<>>
    /\ aggSent = <<>>
    /\ seqLog = <<>>
    /\ handles = {}
    /\ countQueries = 0

\* lines 95, 97-116: no head recorded, no call or getBlockNumber made yet
NoCall == [made |-> FALSE, promise |-> FALSE, tag |-> <<>>, issued |-> "none",
           out |-> "none"]

InitRpc ==
    /\ latestLocation = None
    /\ lastCall = NoCall
    /\ reported = <<>>
    /\ resetEvents = <<>>
    /\ rpcCount = 0

\* no caller is inside a resolver
InitResolverIdle ==
    /\ callers = <<>>
    /\ netQueries = [vmId |-> 0, rollup |-> 0, inbox |-> 0]
    /\ cacheWrites = [vmId |-> 0, rollup |-> 0, inbox |-> 0, walletInbox |-> 0]

\* ------------------------------------- the provider against any environment
InitProvider ==
    /\ InitProviderFields
    /\ InitCall
    /\ InitRpc
    /\ InitWalletFields
    /\ InitWalletEnv
    /\ InitResolverIdle
    /\ hasAggregator = FALSE
    /\ txCount = 0
    /\ flows = {}
    /\ wf = <<>>

NextProvider ==
    \/ PerformStart
    \/ GmrGetReceipt
    \/ GmrArbRollupConn
    \/ GmrGlobalInboxConn
    \/ GmrGetArbTxId
    \/ GmrClientQuery
    \/ GmrCheckId
    \/ GmrLogsProof
    \/ GmrAssertionReceipt
    \/ GmrAssertionRollupConn
    \/ GmrAssertion
    \/ PerformGetTransactionReceipt
    \/ PerformGetTransaction
    \/ PerformGetTransactionPoll
    \/ PerformGetTransactionGiveUp

SpecProvider == InitProvider /\ [][NextProvider]_vars

\* the poller's continuation runs once the task has settled with a value
SpecProviderFair == SpecProvider /\ WF_vars(PerformGetTransaction)

\* ------------------------------------------ one wallet, one sequential flow
InitWallet ==
    /\ InitProviderFields
    /\ deterministicAssertions = FALSE
    /\ InitCall
    /\ InitRpc
    /\ InitWalletFields
    /\ InitWalletEnv
    /\ InitResolverIdle
    /\ flows = {1}
    /\ wf = [f \in flows |-> FlowIdle]

\* one flow of sendTransaction calls made one after another, and no other
\* call on the wallet
NextWallet ==
    \/ \E f \in flows : SendTransaction(f)
    \/ \E f \in flows : GenerateAndIncrementSeq(f)
    \/ \E f \in flows : SendTransactionFields(f)
    \/ \E f \in flows : GenerateSeqQueried(f)
    \/ \E f \in flows : StmGetVmID(f)
    \/ \E f \in flows : StmGetAddress(f)
    \/ \E f \in flows : StmAggregator(f)
    \/ \E f \in flows : StmArbRollupConn(f)
    \/ \E f \in flows : StmInboxConn(f)
    \/ \E f \in flows : StmWalletInboxWrite(f)
    \/ \E f \in flows : StmSendL2Message(f)

SpecWallet == InitWallet /\ [][NextWallet]_vars

\* ------------------------------- two callers resolving ids and connections
InitResolve ==
    /\ InitProviderFields
    /\ deterministicAssertions = FALSE
    /\ InitCall
    /\ InitRpc
    /\ InitWalletFields
    /\ InitWalletEnv
    /\ hasAggregator = FALSE
    /\ txCount = 0
    /\ flows = {}
    /\ wf = <<>>
    /\ callers = [c \in Callers |-> CallerIdle]
    /\ netQueries = [vmId |-> 0, rollup |-> 0, inbox |-> 0]
    /\ cacheWrites = [vmId |-> 0, rollup |-> 0, inbox |-> 0, walletInbox |-> 0]

NextResolve ==
    \/ \E c \in Callers : ResolverStart(c)
    \/ \E c \in Callers : VmIdAnswered(c)
    \/ \E c \in Callers : RollupAnswered(c)
    \/ \E c \in Callers : InboxCall(c)
    \/ \E c \in Callers : InboxAnswered(c)
    \/ \E c \in Callers : WalletInboxWrite(c)

SpecResolve == InitResolve /\ [][NextResolve]_vars

\* ------------------------ two concurrent flows on a wallet already counting
\* the wallet after one generateSeq() on an account with a count of 1 or more
InitConc ==
    /\ InitProviderFields
    /\ deterministicAssertions = FALSE
    /\ InitCall
    /\ InitRpc
    /\ pubkey = None
    /\ walletInboxCache = None
    /\ hasAggregator \in BOOLEAN
    /\ txCount \in 1..MaxInitCount
    /\ seqCache = Some(txCount)
    /\ countQueries = 1
    /\ signerAddr = 1
    /\ l1Sent = <<>>
    /\ aggSent = <<>>
    /\ seqLog = <<>>
    /\ handles = {}
    /\ InitResolverIdle
    /\ flows = {1, 2}
    /\ wf = [f \in flows |-> FlowIdle]

\* calls begun so far by the two flows together
SendsBegun == wf[1].sends + wf[2].sends + wf[1].reserves + wf[2].reserves

NextConc ==
    \/ \E f \in flows : SendsBegun <= MaxSends /\ SendTransaction(f)
    \/ \E f \in flows : (wf[f].pc = "idle" => SendsBegun <= MaxSends)
                            /\ GenerateAndIncrementSeq(f)
    \/ \E f \in flows : SendTransactionFields(f)
    \/ \E f \in flows : StmGetVmID(f)
    \/ \E f \in flows : StmGetAddress(f)
    \/ \E f \in flows : StmAggregator(f)
    \/ \E f \in flows : StmArbRollupConn(f)
    \/ \E f \in flows : StmInboxConn(f)
    \/ \E f \in flows : StmWalletInboxWrite(f)
    \/ \E f \in flows : StmSendL2Message(f)
    \/ IncrementSeq

SpecConc == InitConc /\ [][NextConc]_vars

\* ----------------------------------- call and getBlockNumber requests
NextRpc ==
    \/ Call
    \/ GetBlockNumber

SpecRpc == InitProvider /\ [][NextRpc]_vars

\* --------------------------- two concurrent flows on a wallet just made
InitConcCold ==
    /\ InitProviderFields
    /\ deterministicAssertions = FALSE
    /\ InitCall
    /\ InitRpc
    /\ InitWalletFields
    /\ InitWalletEnv
    /\ InitResolverIdle
    /\ flows = {1, 2}
    /\ wf = [f \in flows |-> FlowIdle]

NextConcCold ==
    \/ \E f \in flows : SendsBegun <= MaxSends /\ SendTransaction(f)
    \/ \E f \in flows : (wf[f].pc = "idle" => SendsBegun <= MaxSends)
                            /\ GenerateAndIncrementSeq(f)
    \/ \E f \in flows : SendTransactionFields(f)
    \/ \E f \in flows : GenerateSeqQueried(f)
    \/ \E f \in flows : StmGetVmID(f)
    \/ \E f \in flows : StmGetAddress(f)
    \/ \E f \in flows : StmAggregator(f)
    \/ \E f \in flows : StmArbRollupConn(f)
    \/ \E f \in flows : StmInboxConn(f)
    \/ \E f \in flows : StmWalletInboxWrite(f)
    \/ \E f \in flows : StmSendL2Message(f)
    \/ IncrementSeq

SpecConcCold == InitConcCold /\ [][NextConcCold]_vars

\* -------------- one sequential flow using every sequence-number operation
NextWalletOps ==
    \/ \E f \in flows : SendTransaction(f)
    \/ \E f \in flows : GenerateAndIncrementSeq(f)
    \/ \E f \in flows : SendTransactionFields(f)
    \/ \E f \in flows : GenerateSeqQueried(f)
    \/ \E f \in flows : GenerateSeq(f)
    \/ \E f \in flows : GenerateSeqAnswered(f)
    \/ \E f \in flows : SendTransactionMessage(f)
    \/ \E f \in flows : StmGetVmID(f)
    \/ \E f \in flows : StmGetAddress(f)
    \/ \E f \in flows : StmAggregator(f)
    \/ \E f \in flows : StmArbRollupConn(f)
    \/ \E f \in flows : StmInboxConn(f)
    \/ \E f \in flows : StmWalletInboxWrite(f)
    \/ \E f \in flows : StmSendL2Message(f)
    \/ IncrementSeq

SpecWalletOps == InitWallet /\ [][NextWalletOps]_vars

\* =================================================================== claims
\* ---- shorthands over the request in progress

\* --------------------------- a wallet's handles resolved through the provider
InitE2E ==
    /\ InitWallet
    /\ txCount = 0

\* most sendTransaction calls made before handles are resolved
MaxHandles == 1

\* a flow resolves the hash of the handle its sendTransaction just returned
PerformStartHandle ==
    /\ ppc = "idle"
    /\ \A f \in flows : wf[f].pc = "idle"
    /\ \E m \in Methods, f \in flows :
          /\ wf[f].out = "ok"
          /\ StartCall(m, wf[f].hash)
    /\ UNCHANGED <<providerFields, walletVars, resolverVars, rpcVars>>

\* A handle exists once sendTransactionMessage returned, so vmIdCache is
\* assigned before any handle is resolved, and a handle carrying an L1 hash
\* comes from the inbox path, which assigned globalInboxCache: the steps of
\* the provider awaiting those queries cannot occur here. The wallet is
\* used through sendTransaction only.
NextE2E ==
    \/ \E f \in flows : wf[f].sends < MaxHandles /\ SendTransaction(f)
    \/ \E f \in flows : wf[f].pc = "gen" /\ GenerateAndIncrementSeq(f)
    \/ \E f \in flows : SendTransactionFields(f)
    \/ \E f \in flows : GenerateSeqQueried(f)
    \/ \E f \in flows : StmGetVmID(f)
    \/ \E f \in flows : StmGetAddress(f)
    \/ \E f \in flows : StmAggregator(f)
    \/ \E f \in flows : StmArbRollupConn(f)
    \/ \E f \in flows : StmInboxConn(f)
    \/ \E f \in flows : StmWalletInboxWrite(f)
    \/ \E f \in flows : StmSendL2Message(f)
    \/ PerformStartHandle
    \/ GmrGetReceipt
    \/ GmrGetArbTxId
    \/ GmrClientQuery
    \/ GmrCheckId
    \/ GmrLogsProof
    \/ GmrAssertionReceipt
    \/ GmrAssertionRollupConn
    \/ PerformGetTransactionReceipt
    \/ PerformGetTransaction
    \/ PerformGetTransactionPoll
    \/ PerformGetTransactionGiveUp

SpecE2E == InitE2E /\ [][NextE2E]_vars

\* ==================================================================== claims
HasRaw == rawResult # None
RawVal == Get(rawResult).val
RawProof == Get(rawResult).proof
RawNodeInfo == Get(rawResult).nodeInfo
\* the validator's answer lacks the proof, the node info or the asserting hash
Unproven ==
    \/ RawProof = None
    \/ RawNodeInfo = None
    \/ Get(RawNodeInfo).l1TxHash = None
GmrSettled == ppc \in {"perform", "done"}
ReceiptDone == ppc = "done" /\ method = "getTransactionReceipt"
TransactionDone == ppc = "done" /\ method = "getTransaction"

\* C1: a receipt has a non-zero confirmation count only if both proof steps
\* ran and passed, and a receipt built from a result without proof, node info
\* or asserting hash has confirmations 0, whatever deterministicAssertions is.
C1_NonZeroOnlyIfProven ==
    (ReceiptDone /\ pret.kind = "receipt") =>
        /\ Get(pret.confirmations) # 0 => proofSteps = {"logs", "assertion"}
        /\ Unproven => Get(pret.confirmations) = 0

\* C1 failing case: deterministicAssertions set, a result with node info and
\* no proof, no proof step run, and a receipt with a non-zero count
C1_Witness ==
    /\ ReceiptDone /\ deterministicAssertions
    /\ pret.kind = "receipt"
    /\ RawProof = None
    /\ proofSteps = {}
    /\ Get(pret.confirmations) > 0

\* C2: getTransaction returns a response with confirmations only if this
\* attempt's getMessageResult ran and passed both proof steps.
C2_ConfirmedOnlyIfProven ==
    (TransactionDone /\ pret.kind = "tx" /\ pret.confirmations # None)
        => (~Unproven /\ proofSteps = {"logs", "assertion"})

\* C2 failing case: the validator's answer has node info and no proof, no
\* proof step ran, and getTransaction returned a response with confirmations
C2_Witness ==
    /\ TransactionDone /\ pret.kind = "tx"
    /\ RawProof = None
    /\ proofSteps = {}
    /\ pret.confirmations = Some(GetTransactionConfirmations)
    /\ pret.blockHash # None

\* C3: getMessageResult never returns a result whose envelope id differs from
\* the id it queried; a mismatch ends in an error with no proof step run.
C3_IdIntegrity ==
    /\ gmr.kind = "result" =>
          /\ HasRaw
          /\ RawVal.id = arbTxHash
          /\ gmr.txHash = arbTxHash
    /\ (HasRaw /\ RawVal.id # arbTxHash) =>
          /\ proofSteps = {}
          /\ ppc \in {"check", "perform", "done"}
          /\ ppc # "check" => gmr.kind = "error"

\* C3 witness: an identifier that had a base-chain receipt, a validator
\* answer for another id, and the error raised
C3_Witness ==
    /\ HasRaw
    /\ txHash # arbTxHash
    /\ RawVal.id # arbTxHash
    /\ RawProof # None
    /\ gmr.kind = "error"

RECURSIVE FoldFromEnd(_, _)
\* the accumulator of the claim: acc_0 = start, acc_k = hash(acc_(k-1), sibling_k)
FoldFromEnd(start, sibs) ==
    IF sibs = <<>> THEN start
    ELSE solidityKeccak256(FoldFromEnd(start, SubSeq(sibs, 1, Len(sibs) - 1)),
                           sibs[Len(sibs)])

\* C4: processLogsProof(value, proof) is true exactly when the siblings folded
\* in order onto hash(logPreHash, hash(value)) give logPostHash: the post hash
\* of that fold verifies, it stops verifying when any one sibling is replaced,
\* with no siblings a post hash other than the start hash fails, and a failed
\* step 1 makes getMessageResult end in an error.
C4_LogsProof ==
    (HasRaw /\ RawProof # None) =>
        LET pf == Get(RawProof)
            start == solidityKeccak256(pf.logPreHash, valueHash(RawVal))
            good == FoldFromEnd(start, pf.logValHashes)
        IN  /\ processLogsProof(RawVal, pf) <=> (pf.logPostHash = good)
            /\ processLogsProof(RawVal, [pf EXCEPT !.logPostHash = good])
            /\ \A s \in OneReplaced(pf.logValHashes) :
                  ~processLogsProof(RawVal, [pf EXCEPT !.logValHashes = s,
                                                       !.logPostHash = good])
            /\ (pf.logValHashes = <<>> /\ pf.logPostHash # start)
                  => ~processLogsProof(RawVal, pf)
            /\ ("logs" \in proofSteps /\ pf.logPostHash # good)
                  => (gmr.kind = "error" /\ "assertion" \notin proofSteps)

\* C4 witness: no siblings, a post hash that is not the start hash, step 1
\* ran and getMessageResult ended in an error
C4_Witness ==
    /\ HasRaw /\ RawProof # None
    /\ Get(RawProof).logValHashes = <<>>
    /\ Get(RawProof).logPostHash #
          solidityKeccak256(Get(RawProof).logPreHash, valueHash(RawVal))
    /\ "logs" \in proofSteps
    /\ gmr.kind = "error"

\* the RollupAsserted event processConfirmedDisputableAssertion would pick
\* from the receipt it read, if any
PickedEvent ==
    IF assertReceipt = None \/ Get(assertReceipt).logs = None THEN None
    ELSE LET logs == Get(Get(assertReceipt).logs)
             fi == findIndexCDA(logs)
         IN  IF fi.throws \/ fi.index = 0 THEN None ELSE Some(logs[fi.index])

\* C5: with a proof and an asserting hash in the validator's answer,
\* getMessageResult ends in a result or in an error; it ends in a result only
\* if log inclusion verifies and the mined receipt holds a RollupAsserted
\* event from the rollup address with the proof's post hash and the node's
\* hash, and that result carries a confirmation count; an event whose node
\* hash differs gives an error although step 1 passed.
C5_AssertionChecked ==
    (HasRaw /\ GmrSettled /\ ~Unproven) =>
        LET pf == Get(RawProof)
            ni == Get(RawNodeInfo)
        IN  /\ gmr.kind \in {"result", "error"}
            /\ gmr.kind = "result" =>
                  /\ processLogsProof(RawVal, pf)
                  /\ proofSteps = {"logs", "assertion"}
                  /\ Get(gmr.nodeInfo).l1Confirmations # None
                  /\ vmIdCache # None
                  /\ ppc = "perform" =>
                        /\ assertReceipt # None
                        /\ Get(gmr.nodeInfo).l1Confirmations =
                              Some(Get(assertReceipt).confirmations)
                        /\ Get(assertReceipt).logs # None
                        /\ \E i \in DOMAIN Get(Get(assertReceipt).logs) :
                              LET log == Get(Get(assertReceipt).logs)[i]
                              IN  /\ log.topic = EB_EVENT_CDA
                                  /\ toLowerCase(log.address) =
                                        toLowerCase(Get(vmIdCache))
                                  /\ log.logPostHash = pf.logPostHash
                                  /\ log.nodeHash = ni.nodeHash
            /\ (ppc = "perform" /\ PickedEvent # None
                   /\ Get(PickedEvent).nodeHash # ni.nodeHash)
                  => gmr.kind = "error"

\* C5 witness: step 1 passed, the event comes from the rollup address with
\* the proof's post hash but another node hash, and the call ended in an error
C5_Witness ==
    /\ HasRaw /\ ppc = "perform" /\ ~Unproven
    /\ proofSteps = {"logs", "assertion"}
    /\ PickedEvent # None
    /\ toLowerCase(Get(PickedEvent).address) = toLowerCase(clientVmId)
    /\ Get(PickedEvent).logPostHash = Get(RawProof).logPostHash
    /\ Get(PickedEvent).nodeHash # Get(RawNodeInfo).nodeHash
    /\ gmr.kind = "error"

\* ---------------------------------------------------------------- wallet
AllOk == \A i \in DOMAIN seqLog : seqLog[i].fate # "failed"

\* C6: from a cold counter, the values generateAndIncrementSeq returns in
\* calls made one after another with no failed submission are txCount,
\* txCount + 1, ..., for every initial transaction count including 0.
C6_ContiguousFromCold ==
    AllOk => \A i \in DOMAIN seqLog : seqLog[i].n = txCount + i - 1

\* C6 witness: initial count 0, three generateAndIncrementSeq calls made by
\* themselves returned 0, 1 and 2, and a fourth, made by a sendTransaction
\* that succeeded, returned 3
C6_Witness ==
    /\ txCount = 0
    /\ Len(seqLog) = 4
    /\ seqLog[1] = [n |-> 0, flow |-> 1, cold |-> TRUE, at |-> "", fate |-> "returned"]
    /\ seqLog[2] = [n |-> 1, flow |-> 1, cold |-> FALSE, at |-> "", fate |-> "returned"]
    /\ seqLog[3] = [n |-> 2, flow |-> 1, cold |-> FALSE, at |-> "", fate |-> "returned"]
    /\ seqLog[4] = [n |-> 3, flow |-> 1, cold |-> FALSE, at |-> "", fate |-> "ok"]
    /\ seqCache = Some(4)

\* the steps of a submission the claim names: resolving the chain id or the
\* sender address, signing, connecting to the inbox, dispatching
StmSteps == {"vmid", "addr", "sign", "inboxConn", "send"}

\* C7: when sendTransaction fails after generateAndIncrementSeq returned n,
\* at any of those steps, the next generateAndIncrementSeq returns n again.
C7_FailedSendRestoresSeq ==
    \A i \in DOMAIN seqLog :
        (/\ seqLog[i].fate = "failed"
         /\ seqLog[i].at \in StmSteps
         /\ i + 1 \in DOMAIN seqLog)
            => seqLog[i + 1].n = seqLog[i].n

\* C7 failing case: the first send reserved n and failed resolving the
\* chain id, the counter kept the reservation and the next send was given
\* n + 1
C7_Witness ==
    /\ Len(seqLog) = 2
    /\ seqLog[1].fate = "failed"
    /\ seqLog[1].at = "vmid"
    /\ seqLog[1].n = txCount
    /\ seqLog[2].n = txCount + 1
    /\ seqCache = Some(txCount + 2)
    /\ \E f \in flows : wf[f].sends = 2 /\ wf[f].op = "sendTransaction"

\* C8: a dispatch the aggregator rejected ends the call with an error and no
\* handle, and the counter is rolled back by one.
C8_AggregatorRejectionPropagates ==
    \A f \in flows :
        (wf[f].pc = "idle" /\ wf[f].dispatch = "rejected") =>
            /\ wf[f].out = "error"
            /\ seqCache = wf[f].seq
            /\ \A hd \in handles : hd.hash # messageID(L2Tx(wf[f].to, Get(wf[f].seq), 0, 0),
                                                          signerAddr)

\* C8 failing case: the aggregator rejected the dispatch, the call returned a
\* handle with the message's id and the counter stayed one past its number
C8_Witness ==
    \E f \in flows :
        /\ wf[f].pc = "idle" /\ wf[f].dispatch = "rejected" /\ wf[f].out = "ok"
        /\ seqCache = Some(Get(wf[f].seq) + 1)
        /\ \E hd \in handles : hd.hash = wf[f].hash /\ hd.path = "aggregator"
        /\ aggSent[Len(aggSent)].accepted = FALSE

\* ------------------------------------------------- handles being resolved
\* the handle whose hash the provider is resolving
Resolving(hd) == ppc # "idle" /\ hd \in handles /\ hd.hash = txHash
\* getMessageResult is past the resolution of the identifier
Resolved == ppc \in {"query", "check", "logsProof", "assertion"} \/ gmr.kind = "result"

\* C10 as stated: the MessageResult's txHash equals the hash of the handle
\* that was resolved, on either path.
C10_AsStated ==
    \A hd \in handles :
        (Resolving(hd) /\ gmr.kind = "result") => gmr.txHash = hd.hash

\* C10 amended: the MessageResult's txHash, which is also the hash of the
\* receipt and of the transaction built from it, is the rollup id
\* getMessageResult queried the validator with: the handle's hash itself
\* when the base chain has no receipt for it, as for an aggregator handle,
\* and the id of the first delivery event of the receipt when it has one,
\* as for a mined direct handle, whose hash is the base-chain transaction
\* hash.
C10_ResultCarriesResolvedId ==
    \A hd \in handles :
        /\ (Resolving(hd) /\ ppc = "query") =>
              IF ethReceipt = None
              THEN arbTxHash = hd.hash
              ELSE getArbTxId(Get(ethReceipt).logs,
                              IF vmIdCache = None THEN clientVmId ELSE Get(vmIdCache))
                     = Some(arbTxHash)
        /\ (Resolving(hd) /\ gmr.kind = "result") => gmr.txHash = arbTxHash
        /\ (Resolving(hd) /\ ppc = "done" /\ pret.kind \in {"receipt", "tx"}) =>
              pret.hash = gmr.txHash

\* C10 witness: a direct handle resolved by getTransaction, the response
\* carrying the id of the receipt's delivery event and not the handle's
\* base-chain hash
C10_Witness ==
    \E hd \in handles :
        /\ Resolving(hd) /\ hd.path = "direct"
        /\ TransactionDone /\ pret.kind = "tx"
        /\ pret.hash = arbTxHash
        /\ pret.hash # hd.hash

\* ---------------------------------------------------------------- poller
\* a getTransaction pass ended not-found
NotFoundPass == ppc = "perform" /\ method = "getTransaction" /\ gmr.kind = "null"
\* a getTransaction pass found the transaction
FoundPass == ppc = "perform" /\ method = "getTransaction" /\ TaskHasValue

\* C11: after a pass that yields not-found getTransaction does not complete:
\* the only step is to start the whole resolve pass again for the same
\* identifier; after a pass that finds the transaction the only step is to
\* complete with it, and that pass does lead to completion.
C11_KeepsPolling ==
    /\ [][NotFoundPass => /\ ppc' = "receipt"
                          /\ pret' = PretNone
                          /\ gmr' = GmrNone
                          /\ rawResult' = None
                          /\ txHash' = txHash]_vars
    /\ [][FoundPass => /\ ppc' = "done"
                       /\ pret' = transactionResponse(gmr.txHash, gmr.nodeInfo)]_vars
    /\ (FoundPass ~> (TransactionDone /\ pret.kind = "tx"))

\* C11 witness: a pass in which the validator had no result for the id
C11_Witness ==
    /\ NotFoundPass
    /\ rawResult = None
    /\ pret = PretNone

\* an integrity error (the envelope's id is not the queried id) or a failed
\* proof step ended this pass of getMessageResult
IntegrityOrProofError ==
    /\ gmr.kind = "error"
    /\ HasRaw
    /\ (RawVal.id # arbTxHash \/ proofSteps # {})

\* C12: a getTransaction pass that raised an integrity or proof error is
\* the last one: the call fails with an error and no further pass starts.
C12_ErrorsNotRetried ==
    [][(ppc = "perform" /\ method = "getTransaction" /\ IntegrityOrProofError)
          => (ppc' = "done" /\ pret' = PretError)]_vars

\* ------------------------------------------------------ sequence counter
\* a reservation has queried the account's transaction count
ReservationQueried == \E i \in DOMAIN seqLog : seqLog[i].cold

\* C13: once a reservation has queried the account's transaction count, no
\* later generateAndIncrementSeq or generateSeq call queries it again,
\* whatever the initial count and whatever submissions succeeded or failed.
C13_CountQueriedOnce ==
    [][ReservationQueried => countQueries' = countQueries]_vars

\* C13 failing case: the initial count is 0; a sendTransaction reserved 0 by
\* querying the count and failed inside the try block, which took the
\* counter from 1 back to 0; the next generateAndIncrementSeq queried the
\* count again
C13_Witness ==
    /\ txCount = 0
    /\ countQueries = 2
    /\ Len(seqLog) = 2
    /\ seqLog[1].n = 0 /\ seqLog[1].cold /\ seqLog[1].fate = "failed"
    /\ seqLog[1].at \in {"sign", "inboxConn", "send"}
    /\ seqLog[2] = [n |-> 0, flow |-> 1, cold |-> TRUE, at |-> "", fate |-> "returned"]

\* sendTransactionMessage ended in an error in flow f
StmFailed(f) ==
    /\ wf[f].pc = "idle"
    /\ wf[f].out = "error"
    /\ wf[f].op \in {"sendTransaction", "sendTransactionMessage"}
    /\ wf[f].failedAt \in {"vmid", "addr", "sign", "inboxConn", "send"}

\* sendTransactionMessage fails in flow f in this step
StmFailsNow(f) ==
    /\ wf[f].pc \in {"vmid", "addr", "sign", "arbRollupConn", "inboxConn", "send"}
    /\ wf'[f].pc = "idle"
    /\ wf'[f].out = "error"

\* C18: when sendTransactionMessage fails, the failure takes off the counter
\* exactly what the submission had advanced it: one when the number was
\* reserved with generateAndIncrementSeq, nothing when it was not, so that
\* the failure leaves the counter no lower than the submission found it.
C18_RollbackExact ==
    [][\A f \in flows :
          StmFailsNow(f) =>
              seqCache' = IF wf[f].reserved /\ seqCache # None
                          THEN Some(Get(seqCache) - 1)
                          ELSE seqCache]_vars

\* C18 failing case: sendTransactionMessage called with a number that was
\* not reserved, the dispatch failed, and the counter is one below the
\* value it had
C18_Witness ==
    \E f \in flows :
        /\ StmFailed(f)
        /\ wf[f].op = "sendTransactionMessage"
        /\ ~wf[f].reserved
        /\ wf[f].failedAt \in {"sign", "inboxConn", "send"}
        /\ wf[f].before # None
        /\ seqCache = Some(Get(wf[f].before) - 1)

\* a sendTransaction call begins in flow f in this step without a gas limit
\* or without a gas price
GaslessCall(f) ==
    /\ wf[f].pc = "idle"
    /\ wf'[f].sends = wf[f].sends + 1
    /\ wf'[f].op = "sendTransaction"
    /\ ~(wf'[f].gasLimit /\ wf'[f].gasPrice)

\* C20: a sendTransaction without a gas limit or without a gas price fails
\* at once: the counter, the count queries, the signature state, the
\* aggregator calls, the inbox transactions and the caches are as before.
C20_NoGasNothingReserved ==
    [][\A f \in flows :
          GaslessCall(f) =>
              /\ wf'[f].pc = "idle"
              /\ wf'[f].out = "error"
              /\ wf'[f].failedAt = "gas"
              /\ wf'[f].seq = None
              /\ UNCHANGED <<seqCache, seqLog, countQueries, pubkey, aggSent,
                             l1Sent, handles, walletInboxCache, vmIdCache>>]_vars

\* C20 case: on a wallet that already reserved a number, a call with a gas
\* limit and no gas price has failed
C20_Witness ==
    \E f \in flows :
        /\ wf[f].pc = "idle"
        /\ wf[f].op = "sendTransaction"
        /\ wf[f].gasLimit /\ ~wf[f].gasPrice
        /\ wf[f].out = "error"
        /\ wf[f].failedAt = "gas"
        /\ seqCache # None
        /\ seqCache = wf[f].before

\* ------------------------------------------------ resolving a receipt's id
\* position of the first log, in receipt order, that is a delivery event;
\* 0 when there is none
FirstDelivery(logsOpt) ==
    IF logsOpt = None THEN 0
    ELSE LET logs == Get(logsOpt)
             isDelivery(i) == logs[i].topic \in
                 {"TransactionMessageDelivered", "EthDepositMessageDelivered",
                  "ERC20DepositMessageDelivered", "ERC721DepositMessageDelivered"}
         IN  IF \A i \in DOMAIN logs : ~isDelivery(i) THEN 0
             ELSE CHOOSE i \in DOMAIN logs :
                     isDelivery(i) /\ \A j \in 1..(i - 1) : ~isDelivery(j)

\* the 32-byte string 0x00..0m of a one-digit message number m
PaddedId(m) == [i \in 1..64 |-> IF i = 64 THEN m ELSE 0]

\* C17: with a receipt, the rollup id comes from the first delivery log in
\* receipt order (the computed hash for a transaction delivery, the message
\* number left-padded to 32 bytes for a deposit, 7 giving 0x00..07); with
\* no delivery log the result is not-found and the validator is not asked
\* for a result; without a receipt the identifier itself is the rollup id.
C17_FirstDeliveryLog ==
    [][/\ (ppc = "arbTxId" /\ ppc' # "arbTxId") =>
            LET logs == Get(ethReceipt).logs
                first == FirstDelivery(logs)
            IN  /\ rawResult' = rawResult
                /\ first = 0 => ppc' = "perform" /\ gmr' \in {GmrNull, GmrError}
                /\ first # 0 =>
                      LET log == Get(logs)[first]
                      IN  \/ ppc' = "perform" /\ gmr' = GmrError
                          \/ /\ ppc' = "query"
                             /\ IF log.topic = "TransactionMessageDelivered"
                                THEN arbTxHash' = calculateTransactionHash(
                                        Get(vmIdCache'), log.to, log.from,
                                        log.seqNumber, log.value, log.data)
                                ELSE /\ zeroPad(toHexString(log.messageNum), IdBytes)
                                          = PaddedId(log.messageNum)
                                     /\ arbTxHash' = hexValue(PaddedId(log.messageNum))
       /\ (ppc = "receipt" /\ ppc' = "query") =>
            ethReceipt' = None /\ arbTxHash' = txHash]_vars

\* C17 case: the receipt has a foreign log and then an ETH deposit delivery
\* with message number 7, and the id to query is 0x00..07
C17_Witness ==
    /\ ppc = "query"
    /\ ethReceipt # None
    /\ Get(ethReceipt).logs =
          Some(<<ForeignLog, DepositLog(EthDepositMessageDelivered, 7)>>)
    /\ arbTxHash = 7
    /\ zeroPad(toHexString(7), IdBytes) = PaddedId(7)

\* C17 case: a receipt without a delivery log gave not-found and no
\* validator result was requested
C17_NotFoundCase ==
    /\ ppc = "perform"
    /\ gmr = GmrNull
    /\ ethReceipt # None
    /\ FirstDelivery(Get(ethReceipt).logs) = 0
    /\ rawResult = None

\* ------------------------------------------------------ resolvers' caches
\* callers whose query of the given kind is in flight
InFlight(q) == {c \in DOMAIN callers : callers[c].pc = q}

\* C14: resolution is single-flight: while one caller's query for a cache
\* is in flight, no second caller has a query for the same cache in flight.
C14_SingleFlight ==
    \A q \in {"vmIdQ", "rollupQ", "inboxQ"} : Cardinality(InFlight(q)) <= 1

\* C14 failing case: both callers called getVmID on the empty cache and
\* each issued client.getVmID
C14_Witness ==
    /\ InFlight("vmIdQ") = Callers
    /\ \A c \in Callers : callers[c].op = "getVmID"
    /\ vmIdCache = None
    /\ netQueries.vmId = 2

\* C15: every cache is assigned at most once.
C15_AssignedOnce ==
    /\ cacheWrites.vmId <= 1
    /\ cacheWrites.rollup <= 1
    /\ cacheWrites.inbox <= 1
    /\ cacheWrites.walletInbox <= 1

\* C15 failing case: two concurrent arbRollupConn calls, each the first
\* call of its caller, and the second finisher assigned the cache again
C15_Witness ==
    /\ cacheWrites.rollup = 2
    /\ \A c \in Callers :
          /\ callers[c].op = "arbRollupConn"
          /\ callers[c].calls = 1
          /\ callers[c].outs = <<"ok">>

\* the cache behind a resolver operation
CacheOf(op) ==
    IF op = "getVmID" THEN vmIdCache
    ELSE IF op = "arbRollupConn" THEN arbRollupCache
    ELSE IF op = "globalInboxConn" THEN globalInboxCache
    ELSE walletInboxCache

\* caller c's call ends in this step with an error
FailsNow(c) ==
    /\ callers[c].pc # "idle"
    /\ callers'[c].pc = "idle"
    /\ callers'[c].outs = Append(callers[c].outs, "error")

\* caller c begins a call of op in this step
StartsNow(c, op) ==
    /\ callers[c].pc = "idle"
    /\ callers'[c].calls = callers[c].calls + 1
    /\ callers'[c].op = op

\* C16: a failed query reaches the caller as an error and leaves every
\* cache as it was; a call that finds its cache empty issues the query
\* again, and a query that succeeds fills the cache: no failure is cached.
C16_FailureNotCached ==
    [][\A c \in Callers :
          /\ FailsNow(c) =>
                /\ callers[c].pc \in {"vmIdQ", "rollupQ", "inboxQ"}
                /\ UNCHANGED <<vmIdCache, arbRollupCache, globalInboxCache,
                               walletInboxCache, cacheWrites>>
          /\ (StartsNow(c, "getVmID") /\ vmIdCache = None) =>
                /\ callers'[c].pc = "vmIdQ"
                /\ netQueries'.vmId = netQueries.vmId + 1
          /\ (StartsNow(c, "arbRollupConn") /\ arbRollupCache = None) =>
                /\ callers'[c].pc = "rollupQ"
                /\ netQueries'.rollup = netQueries.rollup + 1
          /\ (StartsNow(c, "globalInboxConn") /\ globalInboxCache = None) =>
                \/ /\ arbRollupCache = None
                   /\ callers'[c].pc = "rollupQ"
                   /\ netQueries'.rollup = netQueries.rollup + 1
                \/ /\ arbRollupCache # None
                   /\ callers'[c].pc = "inboxCall"
          /\ (callers[c].pc = "inboxCall") => (callers'[c].pc = "inboxCall"
                \/ netQueries'.inbox = netQueries.inbox + 1)
          /\ (callers[c].pc # "idle" /\ callers'[c].pc = "idle"
                /\ callers'[c].outs = Append(callers[c].outs, "ok")) =>
                CacheOf(callers[c].op)' # None]_vars

\* C16 case: the only caller's getVmID failed, its next getVmID queried
\* again and filled the cache
C16_Witness ==
    \E c \in Callers :
        /\ callers[c].op = "getVmID"
        /\ callers[c].outs = <<"error", "ok">>
        /\ \A d \in Callers \ {c} : callers[d].calls = 0
        /\ netQueries.vmId = 2
        /\ cacheWrites.vmId = 1
        /\ vmIdCache = Some(clientVmId)

\* ------------------------------------------------------ concurrent flows
\* C19: with two flows on a wallet whose counter is populated, a number
\* held by a dispatched message is never returned by a later
\* generateAndIncrementSeq, whichever flow's submission failed in between.
C19_DispatchedNumberNotReissued ==
    \A i \in DOMAIN seqLog : \A j \in DOMAIN seqLog :
        (i < j /\ seqLog[i].fate = "ok") => seqLog[j].n # seqLog[i].n

\* C19 failing case: flow 1 reserved n, flow 2 reserved n + 1, flow 1 failed
\* inside the try block and was rolled back, flow 2's message was
\* dispatched, and flow 1's next reservation got n + 1 as well
C19_Witness ==
    /\ Len(seqLog) = 3
    /\ seqLog[1].n = txCount /\ seqLog[1].flow = 1 /\ seqLog[1].fate = "failed"
    /\ seqLog[1].at \in {"sign", "inboxConn", "send"}
    /\ seqLog[2] = [n |-> txCount + 1, flow |-> 2, cold |-> FALSE, at |-> "",
                    fate |-> "ok"]
    /\ seqLog[3].n = txCount + 1
    /\ seqLog[3].flow = 1

\* ------------------------------------------------------------ block tags
\* C21: a call with a block tag that is neither 'pending' nor 'latest'
\* ends with an error and issues no validator query; only the omitted tag
\* is treated like 'latest'.
C21_InvalidTagRejected ==
    (/\ lastCall.made
     /\ lastCall.tag # None
     /\ lastCall.tag \notin {Some(StrTag("pending")), Some(StrTag("latest"))})
        => (lastCall.out = "error" /\ lastCall.issued = "none")

\* C21 failing case: the tag is the block number 0 passed as a plain
\* value, the call was sent to the validator as for 'latest' and returned a
\* value
C21_Witness ==
    /\ lastCall.made
    /\ ~lastCall.promise
    /\ lastCall.tag = Some(NumTag(0))
    /\ lastCall.issued = callLatest(deterministicAssertions)
    /\ lastCall.out = "ok"

\* ------------------------------------------------------------ rollup head
\* a getBlockNumber request whose head query was answered in this step
HeadAnswered == Len(reported') = Len(reported) + 1

\* the last head the validator reported, None when it reported none yet
RECURSIVE LastHead(_)
LastHead(answers) ==
    IF answers = <<>> THEN None
    ELSE IF answers[Len(answers)] # None THEN answers[Len(answers)]
    ELSE LastHead(SubSeq(answers, 1, Len(answers) - 1))

RecordedIsLastReported == latestLocation = LastHead(reported)

\* C22: on every answered getBlockNumber request, resetEventsBlock is
\* called, with the new node height, exactly when a head was recorded and
\* the reported head differs from it in height or in hash; the first head
\* and an unchanged head cause no reset; an absent head leaves the recorded
\* head as it was; otherwise the recorded head becomes the reported one, so
\* that the recorded head is always the most recent head reported.
C22_ResetOnHeadChange ==
    /\ []RecordedIsLastReported
    /\ [][HeadAnswered =>
            LET loc == reported'[Len(reported')]
                differs == /\ latestLocation # None
                           /\ loc # None
                           /\ \/ Get(loc).nodeHeight # Get(latestLocation).nodeHeight
                              \/ Get(loc).nodeHash # Get(latestLocation).nodeHash
            IN  /\ differs => resetEvents' = Append(resetEvents, Get(loc).nodeHeight)
                /\ ~differs => resetEvents' = resetEvents
                /\ loc = None => latestLocation' = latestLocation
                /\ loc # None => latestLocation' = loc]_vars

\* C22 case: a first head (no reset), the same head again (no reset), then
\* a head of the same height with another hash (one reset, to that height)
C22_Witness ==
    /\ Len(reported) = 3
    /\ reported[1] # None
    /\ reported[2] = reported[1]
    /\ reported[3] # None
    /\ Get(reported[3]).nodeHeight = Get(reported[1]).nodeHeight
    /\ Get(reported[3]).nodeHash # Get(reported[1]).nodeHash
    /\ resetEvents = <<Get(reported[3]).nodeHeight>>
    /\ latestLocation = reported[3]

\* ------------------------------------------- concurrent first reservations
\* flow f's first call was a generateAndIncrementSeq made by itself that
\* found the counter empty and has returned
ColdCallReturned(f) ==
    /\ wf[f].op = "generateAndIncrementSeq"
    /\ wf[f].sends = 0
    /\ wf[f].reserves = 1
    /\ wf[f].cold
    /\ wf[f].pc = "idle"
    /\ wf[f].out = "ok"

\* C23: two generateAndIncrementSeq calls started together on a wallet
\* whose counter is empty return different numbers, and the counter ends
\* at the initial count plus 2.
C23_ConcurrentColdDistinct ==
    (ColdCallReturned(1) /\ ColdCallReturned(2)) =>
        /\ wf[1].seq # wf[2].seq
        /\ seqCache = Some(txCount + 2)

\* C23 failing case: both calls found the counter empty, both returned the
\* initial count, and the counter is the initial count plus 1
C23_Witness ==
    /\ ColdCallReturned(1) /\ ColdCallReturned(2)
    /\ wf[1].seq = Some(txCount)
    /\ wf[2].seq = Some(txCount)
    /\ seqLog = <<[n |-> txCount, flow |-> seqLog[1].flow, cold |-> TRUE,
                   at |-> "", fate |-> "returned"],
                  [n |-> txCount, flow |-> seqLog[2].flow, cold |-> TRUE,
                   at |-> "", fate |-> "returned"]>>
    /\ seqCache = Some(txCount + 1)

\* --------------------------------------------------- the chain id returned
\* caller c's last call was a getVmID that returned a chain id
ReturnedVmId(c) ==
    /\ callers[c].pc = "idle"
    /\ callers[c].op = "getVmID"
    /\ callers[c].ret # None

\* C24: every getVmID call returns the chain id held in the cache, so all
\* calls return the same one, also when the validator gave two concurrent
\* first calls different answers.
C24_ReturnsCachedVmId ==
    \A c \in Callers : ReturnedVmId(c) => callers[c].ret = vmIdCache

\* C24 failing case: two concurrent first calls got different answers;
\* the first set the cache, the second returned its own answer
C24_Witness ==
    /\ \A c \in Callers : ReturnedVmId(c) /\ callers[c].calls = 1
    /\ callers[1].ret # callers[2].ret
    /\ cacheWrites.vmId = 1
    /\ vmIdCache \in {callers[1].ret, callers[2].ret}

====
